---- MODULE Spec2Model ----
(***************************************************************************)
(* simpledb: clause-based SQL string builder (build_sql_query), the        *)
(* generic executor (SQLDB.query_generic / _gen_sql_records) and the write *)
(* helpers of SQLDB and SQLiteDB over a DB-API connection.                 *)
(*                                                                         *)
(* Python strings are TLA+ strings: Len, SubSeq and \o act on them         *)
(* character by character, so slicing, lstrip(), upper() and '%' string    *)
(* formatting are computed as the code computes them.                      *)
(***************************************************************************)
EXTENDS Integers, Sequences, FiniteSets, TLC

VARIABLES call, result, adapter, committed, pending, gen, lastOp,
          stdout, errf, logCall, recCall, recResult, life, lastCall, gen2

vars == <<call, result, adapter, committed, pending, gen, lastOp, stdout, errf, logCall, recCall, recResult, life, lastCall, gen2>>

buildVars == <<call, result>>
dbVars == <<adapter, committed, pending, gen, lastOp>>
logVars == <<stdout, errf, logCall>>
recVars == <<recCall, recResult>>
envVars == <<logVars, recVars, life, lastCall, gen2>>

-----------------------------------------------------------------------------
(* Python str primitives *)

Min(a, b) == IF a < b THEN a ELSE b

\* s[:n]
Take(s, n) == SubSeq(s, 1, Min(n, Len(s)))

\* s[n:]
Drop(s, n) == SubSeq(s, Min(n, Len(s)) + 1, Len(s))

\* s[i] as a one-character string (1-based)
CharAt(s, i) == SubSeq(s, i, i)

Whitespace == {" ", "\t", "\n"}

LowerLetters == "abcdefghijklmnopqrstuvwxyz"
UpperLetters == "ABCDEFGHIJKLMNOPQRSTUVWXYZ"

\* str.upper() of one character
UpperChar(c) ==
    IF \E i \in 1..Len(LowerLetters) : CharAt(LowerLetters, i) = c
    THEN CharAt(UpperLetters, CHOOSE i \in 1..Len(LowerLetters) : CharAt(LowerLetters, i) = c)
    ELSE c

RECURSIVE Upper(_)
\* str.upper()
Upper(s) == IF s = "" THEN "" ELSE UpperChar(CharAt(s, 1)) \o Upper(Drop(s, 1))

RECURSIVE LStrip(_)
\* str.lstrip()
LStrip(s) ==
    IF s = "" THEN ""
    ELSE IF CharAt(s, 1) \in Whitespace THEN LStrip(Drop(s, 1)) ELSE s

RECURSIVE RStrip(_)
\* trailing whitespace removed (str.split() ignores it)
RStrip(s) ==
    IF s = "" THEN ""
    ELSE IF CharAt(s, Len(s)) \in Whitespace THEN RStrip(Take(s, Len(s) - 1)) ELSE s

RECURSIVE LastWordFrom(_, _)
\* the start index of the last whitespace-free run ending at the end of s
LastWordFrom(s, i) ==
    IF i = 0 THEN 1
    ELSE IF CharAt(s, i) \in Whitespace THEN i + 1 ELSE LastWordFrom(s, i - 1)

\* str.split() == []
SplitEmpty(s) == LStrip(s) = ""

\* str.split()[-1], defined when the split is not empty
LastWord(s) ==
    LET t == RStrip(s) IN SubSeq(t, LastWordFrom(t, Len(t)), Len(t))

RECURSIVE Join(_, _)
\* sep.join(items)
Join(sep, items) ==
    IF Len(items) = 0 THEN ""
    ELSE IF Len(items) = 1 THEN items[1]
    ELSE items[1] \o sep \o Join(sep, Tail(items))

RECURSIVE FindFrom(_, _, _)
\* str.find(sub) from index i, 1-based; 0 when absent
FindFrom(s, sub, i) ==
    IF i + Len(sub) - 1 > Len(s) THEN 0
    ELSE IF SubSeq(s, i, i + Len(sub) - 1) = sub THEN i
    ELSE FindFrom(s, sub, i + 1)

Find(s, sub) == FindFrom(s, sub, 1)

RECURSIVE CountFrom(_, _, _)
\* str.count(sub)
CountFrom(s, sub, i) ==
    LET j == FindFrom(s, sub, i)
    IN IF j = 0 THEN 0 ELSE 1 + CountFrom(s, sub, j + Len(sub))

Count(s, sub) == CountFrom(s, sub, 1)

-----------------------------------------------------------------------------
(* Clause values: a str, or a list/tuple (isinstance(x, (list, tuple))) *)

Str(s) == [list |-> FALSE, s |-> s, items |-> <<>>]
Lst(xs) == [list |-> TRUE, s |-> "", items |-> xs]

\* Python truthiness of a str or list
Truthy(c) == IF c.list THEN Len(c.items) > 0 ELSE c.s # ""

-----------------------------------------------------------------------------
(* base.build_sql_query *)

\* a variant joining with "," alone
ClauseListComma(c) == IF c.list THEN Join(",", c.items) ELSE c.s

\* ', '.join(clause) when clause is a list or tuple, else clause unchanged
ClauseList(c) == IF c.list THEN Join(", ", c.items) ELSE c.s

\* join_type, with ' JOIN' appended unless its last word is "JOIN"
JoinKind(join_type) ==
    IF LastWord(join_type) # "JOIN" THEN join_type \o " JOIN" ELSE join_type

\* ' %s %s ON %s' % (join_type.upper(), join_table, condition)
JoinTriple(t) == " " \o Upper(JoinKind(t[1])) \o " " \o t[2] \o " ON " \o t[3]

RECURSIVE JoinTriples(_)
JoinTriples(ts) ==
    IF Len(ts) = 0 THEN "" ELSE JoinTriple(Head(ts)) \o JoinTriples(Tail(ts))

\* join_type.split()[-1] raises IndexError when join_type holds no word
JoinRaises(join_clause) ==
    /\ join_clause.list
    /\ \E i \in 1..Len(join_clause.items) : SplitEmpty(join_clause.items[i][1])

JoinPart(join_clause) ==
    IF ~Truthy(join_clause) THEN ""
    ELSE IF join_clause.list THEN JoinTriples(join_clause.items)
    ELSE " " \o join_clause.s

\* a variant that never strips the keyword
KeepKeyword(clause, n, kw) == clause

\* if clause.lstrip()[:n].upper() == kw: clause = clause.lstrip()[n:]
StripKeyword(clause, n, kw) ==
    IF Upper(Take(LStrip(clause), n)) = kw THEN Drop(LStrip(clause), n) ELSE clause

\* if clause: query += ' KW %s' % clause
ClausePart(clause, n, kw) ==
    IF clause = "" THEN "" ELSE " " \o kw \o " " \o StripKeyword(clause, n, kw)

WherePart(where_clause) == ClausePart(where_clause, 5, "WHERE")
GroupPart(group_clause) == ClausePart(group_clause, 8, "GROUP BY")
HavingPart(having_clause) == ClausePart(having_clause, 6, "HAVING")
OrderPart(order_clause) == ClausePart(order_clause, 8, "ORDER BY")

\* 'SELECT %s FROM %s' % (column_clause, table_clause)
SelectFrom(table_clause, column_clause) ==
    "SELECT " \o ClauseList(column_clause) \o " FROM " \o ClauseList(table_clause)

\* a variant appending the clauses in the order of the parameters
build_sql_query_in_parameter_order(table_clause, column_clause, join_clause, where_clause, having_clause, order_clause, group_clause) ==
    SelectFrom(table_clause, column_clause)
        \o JoinPart(join_clause)
        \o WherePart(where_clause)
        \o HavingPart(having_clause)
        \o OrderPart(order_clause)
        \o GroupPart(group_clause)

build_sql_query(table_clause, column_clause, join_clause, where_clause, having_clause, order_clause, group_clause) ==
    SelectFrom(table_clause, column_clause)
        \o JoinPart(join_clause)
        \o WherePart(where_clause)
        \o GroupPart(group_clause)
        \o HavingPart(having_clause)
        \o OrderPart(order_clause)

(* simpledb.build_sql_query: the single-file revision, without join_clause *)
simpledb_build_sql_query(table_clause, column_clause, where_clause, having_clause, order_clause, group_clause) ==
    "SELECT " \o ClauseList(column_clause) \o " from " \o ClauseList(table_clause)
        \o WherePart(where_clause)
        \o GroupPart(group_clause)
        \o HavingPart(having_clause)
        \o OrderPart(order_clause)

-----------------------------------------------------------------------------
(* Calls of build_sql_query: the bounded inputs *)

MaxList == 2
MaxJoins == 2

Names == <<"a", "b", "c", "d">>
TableNames == <<"t1", "t2", "t3", "t4">>

TableClauses == {Str("t")} \cup {Lst(SubSeq(TableNames, 1, n)) : n \in 1..MaxList}
ColumnClauses == {Str("*")} \cup {Lst(SubSeq(Names, 1, n)) : n \in 1..MaxList}

JoinKinds == {"left", "LEFT JOIN", "left join", ""}
JoinSamples == {<<k, "t2", "t1.id = t2.id">> : k \in JoinKinds}

RECURSIVE SeqsOf(_, _)
\* all sequences over S of length n
SeqsOf(S, n) ==
    IF n = 0 THEN {<<>>}
    ELSE {<<x>> \o r : x \in S, r \in SeqsOf(S, n - 1)}

JoinClauses ==
    {Str(""), Str("JOIN t2 ON t1.id = t2.id"), Lst(<<>>)}
        \cup {Lst(ts) : ts \in UNION {SeqsOf(JoinSamples, n) : n \in 1..MaxJoins}}

WhereClauses ==
    {"", "id = 1", "WHERE id = 1", "where id = 1", "  where id = 1", "WHERE WHERE id = 1"}
GroupClauses == {"", "a", "Group By a"}
HavingClauses == {"", "n > 1", "HAVING n > 1"}
OrderClauses == {"", "b", " order by b"}

\* the keyword arguments of a call, in the order the caller wrote them
KwOrders == {<<"where_clause", "having_clause", "order_clause", "group_clause">>,
             <<"where_clause", "group_clause", "having_clause", "order_clause">>,
             <<"order_clause", "having_clause", "group_clause", "where_clause">>}

\* Python binds a keyword argument to the parameter of that name
Kw(kwargs, name) ==
    IF \E i \in 1..Len(kwargs) : kwargs[i][1] = name
    THEN kwargs[CHOOSE i \in 1..Len(kwargs) : kwargs[i][1] = name][2]
    ELSE ""

KwArgs(o, w, h, r, g) ==
    [i \in 1..4 |->
        <<o[i], CASE o[i] = "where_clause" -> w
                  [] o[i] = "having_clause" -> h
                  [] o[i] = "order_clause" -> r
                  [] o[i] = "group_clause" -> g>>]

SigOrder == <<"where_clause", "having_clause", "order_clause", "group_clause">>

\* every combination of the four optional clauses, in every keyword order
ClauseCalls ==
    {[table |-> tc[1], column |-> tc[2], join |-> j, kwargs |-> KwArgs(o, w, h, r, g)] :
        tc \in {<<Str("t"), Str("*")>>, <<Lst(<<"t1", "t2">>), Lst(<<"a", "b">>)>>},
        j \in {Str(""), Str("JOIN t2 ON t1.id = t2.id"),
               Lst(<<<<"left", "t2", "t1.id = t2.id">>>>)},
        w \in WhereClauses, h \in HavingClauses, r \in OrderClauses,
        g \in GroupClauses, o \in KwOrders}

\* every table, column and join clause
ListCalls ==
    {[table |-> t, column |-> c, join |-> j, kwargs |-> KwArgs(SigOrder, w, "", "", "")] :
        t \in TableClauses, c \in ColumnClauses, j \in JoinClauses,
        w \in {"", "id = 1"}}

\* fragments whose first word begins with the letters of a keyword, next to
\* fragments led by the keyword and plain ones
WordWheres == {"", "whereabouts = 1", "where id = 1", "id = 1"}
WordHavings == {"", "having_flag = 1", "HAVING n > 1"}
WordOrders == {"", "order by b", "b"}
WordGroups == {"", "group bya", "a"}

WordCalls ==
    {[table |-> Str("t"), column |-> Str("*"), join |-> Str(""), kwargs |-> KwArgs(o, w, h, r, g)] :
        w \in WordWheres, h \in WordHavings, r \in WordOrders, g \in WordGroups,
        o \in KwOrders}

Calls == ClauseCalls \cup ListCalls

NoCall == [table |-> Str(""), column |-> Str(""), join |-> Str(""), kwargs |-> <<>>]
NoResult == [state |-> "none", impl |-> "", query |-> ""]

-----------------------------------------------------------------------------
(* The builder, called *)

\* base.build_sql_query(table, column, join, where_clause=.., ...)
BuildSqlQuery ==
    /\ result.state = "none"
    /\ result' =
         IF JoinRaises(call.join)
         THEN [state |-> "raised", impl |-> "base", query |-> ""]
         ELSE [state |-> "ok", impl |-> "base",
               query |-> build_sql_query(call.table, call.column, call.join,
                             Kw(call.kwargs, "where_clause"),
                             Kw(call.kwargs, "having_clause"),
                             Kw(call.kwargs, "order_clause"),
                             Kw(call.kwargs, "group_clause"))]
    /\ UNCHANGED <<call, dbVars, envVars>>

\* simpledb.build_sql_query(table, column, where_clause=.., ...)
SimpledbBuildSqlQuery ==
    /\ result.state = "none"
    /\ call.join = Str("")
    /\ result' = [state |-> "ok", impl |-> "simpledb",
                  query |-> simpledb_build_sql_query(call.table, call.column,
                                Kw(call.kwargs, "where_clause"),
                                Kw(call.kwargs, "having_clause"),
                                Kw(call.kwargs, "order_clause"),
                                Kw(call.kwargs, "group_clause"))]
    /\ UNCHANGED <<call, dbVars, envVars>>


-----------------------------------------------------------------------------------------------------------------------------------------------------
(* The database driver behind the DB-API connection: one table of integer  *)
(* columns, statements given as SQL text with the driver's placeholders.   *)
(* The wrapper delegates every statement to it through cursor.execute.     *)

Null == 0
Digits == "0123456789"

\* '%s' % n for a one-digit integer
ToStr(n) == CharAt(Digits, n + 1)

IsDigit(c) == \E i \in 1..Len(Digits) : CharAt(Digits, i) = c
ToInt(c) == (CHOOSE i \in 1..Len(Digits) : CharAt(Digits, i) = c) - 1

Strip(s) == RStrip(LStrip(s))

StartsWith(s, p) == Take(s, Len(p)) = p

\* the text before / after the occurrence of sub found at index i (0: absent)
BeforeAt(s, i) == IF i = 0 THEN s ELSE Take(s, i - 1)
AfterAt(s, sub, i) == IF i = 0 THEN "" ELSE Drop(s, i + Len(sub) - 1)

\* the text before / after the first occurrence of sub (all / none when absent)
Before(s, sub) == BeforeAt(s, Find(s, sub))
After(s, sub) == AfterAt(s, sub, Find(s, sub))

RECURSIVE Split(_, _)
RECURSIVE SplitAt(_, _, _)
\* s.split(sep)
SplitAt(s, sep, i) ==
    IF i = 0 THEN <<s>>
    ELSE <<BeforeAt(s, i)>> \o Split(AfterAt(s, sep, i), sep)

Split(s, sep) == SplitAt(s, sep, Find(s, sep))

\* the index of x in the sequence xs, 0 when absent
IndexOf(xs, x) ==
    IF \E i \in 1..Len(xs) : xs[i] = x
    THEN CHOOSE i \in 1..Len(xs) : xs[i] = x /\ \A j \in 1..(i - 1) : xs[j] # x
    ELSE 0

RECURSIVE KeepRows(_, _, _)
KeepRows(rows, keep, i) ==
    IF i > Len(rows) THEN <<>>
    ELSE (IF i \in keep THEN <<rows[i]>> ELSE <<>>) \o KeepRows(rows, keep, i + 1)

\* the rows whose index is in keep, in their order
SelectRows(rows, keep) == KeepRows(rows, keep, 1)

\* The database: name = "" when the table does not exist. A row holds one
\* value per column, in the order of cols.
\* indexes: the table's indexes as <<index name, column>>.
NoTable == [name |-> "", cols |-> <<>>, pk |-> "", rows |-> <<>>, indexes |-> {}]

Row(vals) == [vals |-> vals]

\* a WHERE predicate "col = n" as [ok, all, col, val]; "" selects every row
ParseEq(eq, lhs, rhs) ==
    IF eq > 0 /\ Len(rhs) = 1 /\ IsDigit(rhs)
    THEN [ok |-> TRUE, all |-> FALSE, col |-> lhs, val |-> ToInt(rhs)]
    ELSE [ok |-> FALSE, all |-> FALSE, col |-> "", val |-> Null]

ParseCond(t) ==
    IF t = "" THEN [ok |-> TRUE, all |-> TRUE, col |-> "", val |-> Null]
    ELSE ParseEq(Find(t, "="), Strip(Before(t, "=")), Strip(After(t, "=")))

ParseWhere(text) == ParseCond(Strip(text))

\* nothing can be parsed: a syntax error
NoCond == ParseEq(0, "", "")

\* the WHERE text of a statement: between " WHERE " and the next clause
WhereText(sql) ==
    Before(Before(Before(After(sql, " WHERE "), " GROUP BY "), " HAVING "), " ORDER BY ")

\* the predicate of a statement: every row without WHERE; a WHERE with
\* nothing after it is a syntax error
StatementWhere(sql) ==
    IF Find(sql, " WHERE ") = 0 THEN ParseCond("")
    ELSE IF Strip(WhereText(sql)) = "" THEN NoCond
    ELSE ParseWhere(WhereText(sql))

Matches(cols, w, row) ==
    w.all \/ row.vals[IndexOf(cols, w.col)] = w.val

WhereOk(cols, w) == w.ok /\ (w.all \/ IndexOf(cols, w.col) > 0)

\* the indexes of the rows the predicate selects
Hits(db, w) == {j \in 1..Len(db.rows) : Matches(db.cols, w, db.rows[j])}

\* error: the class of the exception the driver raised, "" when none
Outcome(db, raised, rows, cols) ==
    [db |-> db, raised |-> raised, rows |-> rows, cols |-> cols,
     error |-> IF raised THEN "OperationalError" ELSE ""]

\* no such table, no such column, syntax error
Raise(db) == Outcome(db, TRUE, <<>>, <<>>)

\* UNIQUE constraint failed
IntegrityError(db) == [Raise(db) EXCEPT !.error = "IntegrityError"]

\* Incorrect number of bindings supplied
ProgrammingError(db) == [Raise(db) EXCEPT !.error = "ProgrammingError"]

Done(db) == Outcome(db, FALSE, <<>>, <<>>)

\* the table exists under this name
Known(db, name) == db.name # "" /\ name = db.name

\* CREATE TABLE name(col type [default x] [NOT NULL] [PRIMARY KEY], ...)
CreateTableOf(db, name, cols, pks) ==
    IF db.name # "" \/ name = "" \/ Cardinality(pks) > 1 THEN Raise(db)
    ELSE Done([name |-> name, cols |-> cols,
               pk |-> IF pks = {} THEN "" ELSE cols[CHOOSE i \in pks : TRUE],
               rows |-> <<>>, indexes |-> {}])

CreateColumns(db, name, defs) ==
    CreateTableOf(db, name, [i \in 1..Len(defs) |-> Before(defs[i], " ")],
                  {i \in 1..Len(defs) : Find(defs[i], " PRIMARY KEY") > 0})

ExecCreate(db, sql) ==
    CreateColumns(db, Strip(Before(After(sql, "CREATE TABLE "), "(")),
                  Split(Before(After(sql, "("), ")"), ", "))

\* DROP TABLE name
ExecDrop(db, sql) ==
    IF Known(db, Strip(After(sql, "DROP TABLE "))) THEN Done(NoTable) ELSE Raise(db)

\* INSERT INTO name (c1, c2) VALUES (p, p): the k-th value goes to column ck
InsertVals(cols, into, values) ==
    [i \in 1..Len(cols) |->
        IF IndexOf(into, cols[i]) = 0 THEN Null ELSE values[IndexOf(into, cols[i])]]

InsertRow(db, vals, k) ==
    IF k > 0 /\ \E j \in 1..Len(db.rows) : db.rows[j].vals[k] = vals[k]
    THEN IntegrityError(db)
    ELSE Done([db EXCEPT !.rows = Append(@, Row(vals))])

InsertInto(db, name, into, values, nph) ==
    IF \/ ~Known(db, name)
       \/ Len(into) # nph
       \/ \E i \in 1..Len(into) : IndexOf(db.cols, into[i]) = 0
    THEN Raise(db)
    ELSE IF nph # Len(values) THEN ProgrammingError(db)
    ELSE InsertRow(db, InsertVals(db.cols, into, values), IndexOf(db.cols, db.pk))

ExecInsert(db, sql, values, ph) ==
    InsertInto(db, Strip(Before(After(sql, "INSERT INTO "), "(")),
               Split(Before(After(sql, "("), ")"), ", "), values,
               Count(After(sql, " VALUES "), ph))

\* UPDATE name SET c1 = p, c2 = p [WHERE col = n]
UpdatedRow(cols, scol, values, row) ==
    Row([i \in 1..Len(cols) |->
            IF IndexOf(scol, cols[i]) = 0 THEN row.vals[i]
            ELSE values[IndexOf(scol, cols[i])]])

UpdateHits(db, scol, values, hits) ==
    Done([db EXCEPT !.rows = [j \in 1..Len(db.rows) |->
            IF j \in hits THEN UpdatedRow(db.cols, scol, values, db.rows[j])
            ELSE db.rows[j]]])

UpdateSet(db, name, scol, w, values, nph) ==
    IF \/ ~Known(db, name)
       \/ Len(scol) # nph
       \/ \E i \in 1..Len(scol) : IndexOf(db.cols, scol[i]) = 0
       \/ ~WhereOk(db.cols, w)
    THEN Raise(db)
    ELSE IF nph # Len(values) THEN ProgrammingError(db)
    ELSE UpdateHits(db, scol, values, Hits(db, w))

SetColumns(sets) == [i \in 1..Len(sets) |-> Strip(Before(sets[i], "="))]

ExecUpdate(db, sql, values, ph) ==
    UpdateSet(db, Strip(Before(After(sql, "UPDATE "), " SET ")),
              SetColumns(Split(Before(After(sql, " SET "), " WHERE "), ", ")),
              StatementWhere(sql), values,
              Count(Before(After(sql, " SET "), " WHERE "), ph))

\* DELETE FROM name [WHERE col = n]
DeleteWhere(db, name, w) ==
    IF ~Known(db, name) \/ ~WhereOk(db.cols, w) THEN Raise(db)
    ELSE Done([db EXCEPT !.rows = SelectRows(@, (1..Len(@)) \ Hits(db, w))])

ExecDelete(db, sql) ==
    DeleteWhere(db, Strip(Before(After(sql, "DELETE FROM "), " WHERE ")),
                StatementWhere(sql))

\* the sequence without its k-th element
Without(xs, k) == SubSeq(xs, 1, k - 1) \o SubSeq(xs, k + 1, Len(xs))

\* rowid names the table's INTEGER PRIMARY KEY column (its alias); the tables
\* of the model are created with such a column or have no rowid to speak of
ColumnIndex(db, col) == IndexOf(db.cols, IF col = "rowid" THEN db.pk ELSE col)

\* SELECT * | c1, c2 FROM name [WHERE col = n] [ORDER BY col]: the result set
Project(db, cols, hit) ==
    Outcome(db, FALSE,
            [j \in 1..Len(hit) |->
                [i \in 1..Len(cols) |-> hit[j].vals[ColumnIndex(db, cols[i])]]],
            cols)

Least(rows, k) == CHOOSE j \in 1..Len(rows) : \A i \in 1..Len(rows) : rows[j].vals[k] <= rows[i].vals[k]

RECURSIVE SortedBy(_, _)
\* ORDER BY the k-th column, ascending
SortedBy(rows, k) == IF Len(rows) = 0 THEN <<>> ELSE <<rows[Least(rows, k)]>> \o SortedBy(Without(rows, Least(rows, k)), k)

Ordered(db, rows, order) == IF order = "" THEN rows ELSE SortedBy(rows, ColumnIndex(db, order))

SelectWhere(db, name, cols, w, order) ==
    IF \/ ~Known(db, name)
       \/ ~WhereOk(db.cols, w)
       \/ \E i \in 1..Len(cols) : ColumnIndex(db, cols[i]) = 0
       \/ order # "" /\ ColumnIndex(db, order) = 0
    THEN Raise(db)
    ELSE Project(db, cols, Ordered(db, SelectRows(db.rows, Hits(db, w)), order))

SelectColumns(db, what) == IF what = "*" THEN db.cols ELSE Split(what, ", ")

OrderText(sql) == IF Find(sql, " ORDER BY ") = 0 THEN "" ELSE Strip(After(sql, " ORDER BY "))

ExecSelect(db, sql) ==
    SelectWhere(db, Strip(Before(After(sql, " FROM "), " ")),
                SelectColumns(db, Strip(Before(After(sql, "SELECT "), " FROM "))),
                StatementWhere(sql), OrderText(sql))

\* CREATE INDEX idx ON name(col)
CreateIndexOn(db, idx, name, col) ==
    IF \/ ~Known(db, name)
       \/ idx = ""
       \/ IndexOf(db.cols, col) = 0
       \/ \E x \in db.indexes : x[1] = idx
    THEN Raise(db)
    ELSE Done([db EXCEPT !.indexes = @ \cup {<<idx, col>>}])

ExecIndex(db, sql) ==
    CreateIndexOn(db, Strip(Before(After(sql, "CREATE INDEX "), " ON ")),
                  Strip(Before(After(sql, " ON "), "(")),
                  Strip(Before(After(sql, "("), ")")))

\* ALTER TABLE name DROP COLUMN col: the column leaves the table and every
\* row, with the indexes on it
DropColumnAt(db, col, k) ==
    IF k = 0 THEN Raise(db)
    ELSE Done([db EXCEPT !.cols = Without(@, k),
                         !.pk = IF @ = col THEN "" ELSE @,
                         !.rows = [j \in 1..Len(@) |-> Row(Without(@[j].vals, k))],
                         !.indexes = {x \in @ : x[2] # col}])

DropColumn(db, name, col) ==
    IF ~Known(db, name) THEN Raise(db) ELSE DropColumnAt(db, col, IndexOf(db.cols, col))

\* ALTER TABLE name RENAME TO new
RenameTo(db, name, new) ==
    IF ~Known(db, name) \/ new = "" \/ new = name THEN Raise(db)
    ELSE Done([db EXCEPT !.name = new])

\* ALTER TABLE name ADD COLUMN col type [default x] [NOT NULL] [PRIMARY KEY]:
\* the rows get the default, or NULL. A primary key cannot be added, nor a
\* NOT NULL column without default.
AddColumnWords(db, name, words, dflt) ==
    IF \/ ~Known(db, name)
       \/ Len(words) < 2
       \/ IndexOf(db.cols, words[1]) > 0
       \/ IndexOf(words, "PRIMARY") > 0
       \/ (IndexOf(words, "NOT") > 0 /\ dflt = 0)
    THEN Raise(db)
    ELSE Done([db EXCEPT !.cols = Append(@, words[1]),
                         !.rows = [j \in 1..Len(@) |->
                                     Row(Append(@[j].vals,
                                                IF dflt = 0 THEN Null ELSE ToInt(words[dflt + 1])))]])

AddColumnTo(db, name, words) == AddColumnWords(db, name, words, IndexOf(words, "default"))

ExecAlter(db, sql) ==
    IF Find(sql, " DROP COLUMN ") > 0
    THEN DropColumn(db, Strip(Before(After(sql, "ALTER TABLE "), " DROP COLUMN ")),
                    Strip(After(sql, " DROP COLUMN ")))
    ELSE IF Find(sql, " RENAME TO ") > 0
    THEN RenameTo(db, Strip(Before(After(sql, "ALTER TABLE "), " RENAME TO ")),
                  Strip(After(sql, " RENAME TO ")))
    ELSE IF Find(sql, " ADD COLUMN ") > 0
    THEN AddColumnTo(db, Strip(Before(After(sql, "ALTER TABLE "), " ADD COLUMN ")),
                     Split(Strip(After(sql, " ADD COLUMN ")), " "))
    ELSE Raise(db)

\* cursor.execute(sql, values) on the connection's pending transaction
Execute(db, sql, values, ph) ==
    IF StartsWith(sql, "CREATE TABLE ") THEN ExecCreate(db, sql)
    ELSE IF StartsWith(sql, "CREATE INDEX ") THEN ExecIndex(db, sql)
    ELSE IF StartsWith(sql, "ALTER TABLE ") THEN ExecAlter(db, sql)
    ELSE IF StartsWith(sql, "DROP TABLE ") THEN ExecDrop(db, sql)
    ELSE IF StartsWith(sql, "INSERT INTO ") THEN ExecInsert(db, sql, values, ph)
    ELSE IF StartsWith(sql, "UPDATE ") THEN ExecUpdate(db, sql, values, ph)
    ELSE IF StartsWith(sql, "DELETE FROM ") THEN ExecDelete(db, sql)
    ELSE IF StartsWith(sql, "SELECT ") THEN ExecSelect(db, sql)
    ELSE Raise(db)

-----
(* SQLRecord and the record generator *)

\* SQLRecord(sql_rec, db): the row with the cursor's column names
SQLRecord(cols, row) == [cols |-> cols, vals |-> row]

\* SQLRecord.__getitem__: sql_rec[name]; a missing name raises
HasKey(rec, name) == IndexOf(rec.cols, name) > 0
GetItem(rec, name) == rec.vals[IndexOf(rec.cols, name)]

\* The row classes the cursors hand out: a dict (MySQLdb DictCursor, the
\* dict PgSQLDB builds for pg8000) or sqlite3.Row (SQLiteDB.connect).
RowTypes == {"dict", "Row"}

\* name in self._sql_rec: a dict tests its keys; sqlite3.Row defines no
\* __contains__, so the test iterates the row, and a Row iterates its values
Contains(rec, rowtype, name) ==
    IF rowtype = "dict" THEN HasKey(rec, name)
    ELSE \E i \in 1..Len(rec.vals) : rec.vals[i] = name

Returns(value) == [raised |-> FALSE, value |-> value]
NotFound == [raised |-> TRUE, value |-> ""]

\* SQLRecord.__getitem__: self._sql_rec.__getitem__(str(name))
getitem(rec, name) == IF HasKey(rec, name) THEN Returns(GetItem(rec, name)) ELSE NotFound

\* the attributes an SQLRecord has by itself: __getattr__ is not asked for them
OwnAttributes ==
    {"_sql_rec", "db", "get", "keys", "values", "items", "to_dict", "update", "insert"}

\* record.name: the object's own attribute, else __getattr__: __getitem__(name)
getattr(rec, name) ==
    IF name \in OwnAttributes THEN Returns("<attribute " \o name \o ">")
    ELSE getitem(rec, name)

\* SQLRecord.get: if name in self._sql_rec: return self.__getitem__(name)
\*                else: return default_value
get(rec, rowtype, name, default_value) ==
    IF Contains(rec, rowtype, name) THEN getitem(rec, name) ELSE Returns(default_value)

\* dict.keys() and dict.values() of a dict given as its (key, value) pairs
Keys(d) == [i \in 1..Len(d) |-> d[i][1]]
Values(d) == [i \in 1..Len(d) |-> d[i][2]]

NoRec == <<>>

\* The generator object _gen_sql_records(cursor) returns: nothing of its body
\* has run yet. cursor holds the rows the cursor has not handed out, result
\* the statement's result set, executes the times the statement was executed,
\* after the record the call before the query wrote (NoRec: none).
NewGen(sql, rows, cols, after) ==
    [sql |-> sql, cursor |-> rows, cols |-> cols, result |-> rows,
     state |-> "created", buffer |-> <<>>, idx |-> 0,
     yielded |-> <<>>, stops |-> 0, executes |-> 1, after |-> after]

\* the caller holds no generator
NoGen ==
    [sql |-> "", cursor |-> <<>>, cols |-> <<>>, result |-> <<>>,
     state |-> "none", buffer |-> <<>>, idx |-> 0,
     yielded |-> <<>>, stops |-> 0, executes |-> 0, after |-> NoRec]

\* next(gen): run the body to its next yield, or to its end
\*   for row in cursor.fetchall(): yield SQLRecord(row, self)
\* the loop over the fetched rows: yield the next record, or end
Resume(g) ==
    IF g.idx < Len(g.buffer)
    THEN [g EXCEPT !.state = "suspended", !.idx = @ + 1,
                   !.yielded = Append(@, SQLRecord(g.cols, g.buffer[g.idx + 1]))]
    ELSE [g EXCEPT !.state = "finished", !.stops = @ + 1]

\* cursor.fetchall(): every row the cursor still holds
Fetchall(g) == [g EXCEPT !.buffer = g.cursor, !.cursor = <<>>]

\* a variant that starts over on the rows once it has ended
gen_sql_records_restart(g) ==
    IF g.state = "finished" THEN Resume([g EXCEPT !.idx = 0, !.executes = @ + 1])
    ELSE IF g.state = "created" THEN Resume(Fetchall(g))
    ELSE Resume(g)

gen_sql_records_next(g) ==
    IF g.state = "finished" THEN [g EXCEPT !.stops = @ + 1]
    ELSE IF g.state = "created" THEN Resume(Fetchall(g))
    ELSE Resume(g)

\* next(gen) on the generator of PgSQLDB._gen_sql_records:
\*   if HAS_PSYCOPG2: super(PgSQLDB, self)._gen_sql_records(cursor)
\*   else: for row in cursor.fetchall(): yield SQLRecord(dict_row, self.db)
\* With psycopg2 the body makes the base generator, iterates nothing of it
\* and ends; without it the rows are yielded as dicts of the cursor's fields.
PgSQLDB_gen_sql_records_next(g, has_psycopg2) ==
    IF has_psycopg2 THEN [g EXCEPT !.state = "finished", !.stops = @ + 1]
    ELSE gen_sql_records_next(g)

-----------------------------------------------------------------------------
(* The wrapper's methods, as the effect of one call on the connection *)

\* What one call did: the connection's durable and pending contents after
\* it, whether it raised, and the calls it made on the connection.
\* driver_error: the exception the driver raised in the call; error: the
\* exception the call's caller gets ("": none).
Step(c, p, raised, commits, rollbacks, executes) ==
    [committed |-> c, pending |-> p, raised |-> raised, commits |-> commits,
     rollbacks |-> rollbacks, executes |-> executes, error |-> "", driver_error |-> "",
     sql |-> ""]

\* the statement handed to cursor.execute
Ran(st, sql) == [st EXCEPT !.sql = sql]

\* the exception raised under cursor.execute
Observed(st, error) == [st EXCEPT !.driver_error = error]

\* a variant wrapping the driver's exception in one of its own
Wrapped(st, error) ==
    [Observed(st, error) EXCEPT !.error = IF error = "" THEN "" ELSE "DatabaseError"]

\* cursor.execute is called outside any try: what it raises leaves the
\* method as it is
Propagated(st, error) == [Observed(st, error) EXCEPT !.error = error]

\* the placeholder the driver substitutes (paramstyle)
DriverPlaceholder(a) == IF a = "SQLiteDB" THEN "?" ELSE "%s"

\* SQLDB._placeholder
Placeholder == "%s"

\* SQLDB.query_generic: cursor = get_cursor(); cursor.execute(query, values);
\* return _gen_sql_records(cursor). The outcome carries the cursor's rows.
\* No commit and no rollback is made.
\* a variant committing what it executed
ExecutedAndCommitted(c, o) ==
    Propagated([committed |-> o.db, pending |-> o.db, raised |-> o.raised, rows |-> o.rows,
                cols |-> o.cols, commits |-> 1, rollbacks |-> 0, executes |-> 1,
                error |-> "", driver_error |-> "", sql |-> ""], o.error)

Executed(c, o) ==
    Propagated([committed |-> c, pending |-> o.db, raised |-> o.raised, rows |-> o.rows,
                cols |-> o.cols, commits |-> 0, rollbacks |-> 0, executes |-> 1,
                error |-> "", driver_error |-> "", sql |-> ""], o.error)

\* a variant leaving the execution to the first next() on the generator
query_generic_lazy(a, c, p, sql, values) ==
    Ran([Executed(c, Done(p)) EXCEPT !.executes = 0], sql)

query_generic(a, c, p, sql, values) ==
    Ran(Executed(c, Execute(p, sql, values, DriverPlaceholder(a))), sql)

\* the keys in reverse
Reversed(xs) == [i \in 1..Len(xs) |-> xs[Len(xs) + 1 - i]]

\* a variant naming the columns in another order than the values
InsertSqlReversed(table_name, rec, ph) ==
    "INSERT INTO " \o table_name \o " (" \o Join(", ", Reversed(Keys(rec))) \o ") VALUES ("
        \o Join(", ", [i \in 1..Len(rec) |-> ph]) \o ")"

\* "INSERT INTO %s (%s) VALUES (%s)" % (table, ", ".join(keys), ', '.join([ph]*len(rec)))
InsertSql(table_name, rec, ph) ==
    "INSERT INTO " \o table_name \o " (" \o Join(", ", Keys(rec)) \o ") VALUES ("
        \o Join(", ", [i \in 1..Len(rec) |-> ph]) \o ")"

Inserted(p, raised, n) == [db |-> p, raised |-> raised, n |-> n, error |-> ""]

OneMore(r) == [r EXCEPT !.n = @ + 1]

RECURSIVE InsertAll(_, _, _, _, _)
RECURSIVE InsertNext(_, _, _, _, _, _)
\* for rec in recs: cursor.execute(sql, rec.values()); stops at the first raise
InsertNext(a, p, o, table_name, recs, ph) ==
    IF o.raised THEN [Inserted(p, TRUE, 1) EXCEPT !.error = o.error]
    ELSE OneMore(InsertAll(a, o.db, table_name, Tail(recs), ph))

InsertAll(a, p, table_name, recs, ph) ==
    IF Len(recs) = 0 THEN Inserted(p, FALSE, 0)
    ELSE InsertNext(a, p,
                    Execute(p, InsertSql(table_name, Head(recs), ph), Values(Head(recs)),
                            DriverPlaceholder(a)),
                    table_name, recs, ph)

\* a variant committing whatever dry_run says
CommitAlways(c, p, raised, n, dry_run) ==
    IF raised THEN Step(c, p, TRUE, 0, 0, n) ELSE Step(p, p, FALSE, 1, 0, n)

\* SQLDB: if dry_run: connection.rollback() else: connection.commit()
RollbackOrCommit(c, p, raised, n, dry_run) ==
    IF raised THEN Step(c, p, TRUE, 0, 0, n)
    ELSE IF dry_run THEN Step(c, c, FALSE, 0, 1, n)
    ELSE Step(p, p, FALSE, 1, 0, n)

\* SQLiteDB: if not dry_run: connection.commit()
CommitUnlessDryRun(c, p, raised, n, dry_run) ==
    IF raised THEN Step(c, p, TRUE, 0, 0, n)
    ELSE IF ~dry_run THEN Step(p, p, FALSE, 1, 0, n)
    ELSE Step(c, p, FALSE, 0, 0, n)

AddRecordsEnd(c, r, dry_run) ==
    Propagated(RollbackOrCommit(c, r.db, r.raised, r.n, dry_run), r.error)

\* SQLDB.add_records
SQLDB_add_records(a, c, p, table_name, recs, dry_run) ==
    AddRecordsEnd(c, InsertAll(a, p, table_name, recs, Placeholder), dry_run)

SQLiteAddRecordsEnd(c, r, dry_run) ==
    Propagated(CommitUnlessDryRun(c, r.db, r.raised, r.n, dry_run), r.error)

\* SQLiteDB.add_records
SQLiteDB_add_records(a, c, p, table_name, recs, dry_run) ==
    SQLiteAddRecordsEnd(c, InsertAll(a, p, table_name, recs, "?"), dry_run)

\* 'UPDATE %s SET ' + ', '.join('%s = ph') [+ ' WHERE %s']
UpdateSqlWhere(table_name, col_dict, w, ph) ==
    "UPDATE " \o table_name \o " SET "
        \o Join(", ", [i \in 1..Len(col_dict) |-> col_dict[i][1] \o " = " \o ph])
        \o (IF w # "" THEN " WHERE " \o w ELSE "")

UpdateSql(table_name, col_dict, where_clause, ph) ==
    UpdateSqlWhere(table_name, col_dict, StripKeyword(where_clause, 5, "WHERE"), ph)

UpdateRowEnd(c, o, dry_run) ==
    Propagated(RollbackOrCommit(c, o.db, o.raised, 1, dry_run), o.error)

\* SQLDB.update_row
SQLDB_update_row(a, c, p, table_name, col_dict, where_clause, dry_run) ==
    UpdateRowEnd(c, Execute(p, UpdateSql(table_name, col_dict, where_clause, Placeholder),
                            Values(col_dict), DriverPlaceholder(a)), dry_run)

SQLiteUpdateRowEnd(c, o, dry_run) ==
    Propagated(CommitUnlessDryRun(c, o.db, o.raised, 1, dry_run), o.error)

\* SQLiteDB.update_row
SQLiteDB_update_row(a, c, p, table_name, col_dict, where_clause, dry_run) ==
    SQLiteUpdateRowEnd(c, Execute(p, UpdateSql(table_name, col_dict, where_clause, "?"),
                                  Values(col_dict), DriverPlaceholder(a)), dry_run)

\* self.update_row(...): the method of the object's class
update_row(a, c, p, table_name, col_dict, where_clause, dry_run) ==
    IF a = "SQLiteDB"
    THEN SQLiteDB_update_row(a, c, p, table_name, col_dict, where_clause, dry_run)
    ELSE SQLDB_update_row(a, c, p, table_name, col_dict, where_clause, dry_run)

\* d[key] and d.pop(key) on a dict given as its (key, value) pairs
DictGet(d, key) == d[IndexOf(Keys(d), key)][2]
DictPop(d, key) == Without(d, IndexOf(Keys(d), key))

\* update_rows, for rec in col_dict_list:
\*   where_clause = '%s = %s' % (id_col_name, rec[id_col_name])
\*   rec = rec.copy(); rec.pop(id_col_name)
RowWhere(rec, id_col_name) == id_col_name \o " = " \o ToStr(DictGet(rec, id_col_name))

\* the calls a method made, added to those made before it
After_(acc, st) ==
    [st EXCEPT !.commits = @ + acc.commits, !.rollbacks = @ + acc.rollbacks,
               !.executes = @ + acc.executes]

\* a variant handing dry_run on to update_row
RECURSIVE UpdateRowsDry(_, _, _, _, _, _)
UpdateRowsDryNext(a, st, table_name, recs, id_col_name, dry_run) ==
    IF st.raised THEN st
    ELSE UpdateRowsDry(a, st, table_name, Tail(recs), id_col_name, dry_run)

UpdateRowsDry(a, acc, table_name, recs, id_col_name, dry_run) ==
    IF Len(recs) = 0 THEN acc
    ELSE UpdateRowsDryNext(a,
             After_(acc, update_row(a, acc.committed, acc.pending, table_name,
                                    DictPop(Head(recs), id_col_name),
                                    RowWhere(Head(recs), id_col_name), dry_run)),
             table_name, recs, id_col_name, dry_run)

\*   self.update_row(table_name, rec, where_clause)
\* update_row is called without dry_run; what it raises ends the loop
RECURSIVE UpdateRowsList(_, _, _, _, _, _)
UpdateRowsNext(a, st, table_name, recs, id_col_name, dry_run) ==
    IF st.raised THEN st
    ELSE UpdateRowsList(a, st, table_name, Tail(recs), id_col_name, dry_run)

UpdateRowsList(a, acc, table_name, recs, id_col_name, dry_run) ==
    IF Len(recs) = 0 THEN acc
    ELSE UpdateRowsNext(a,
             After_(acc, update_row(a, acc.committed, acc.pending, table_name,
                                    DictPop(Head(recs), id_col_name),
                                    RowWhere(Head(recs), id_col_name), FALSE)),
             table_name, recs, id_col_name, dry_run)

\* elif isinstance(col_dict_list, dict): col_names = dict.keys() -- dict is the
\* built-in type, and keys() of the type without an instance raises TypeError
UpdateRowsDict(c, p) == [Step(c, p, TRUE, 0, 0, 0) EXCEPT !.error = "TypeError"]

\* if dry_run: connection.rollback() else: connection.commit()
UpdateRowsEnd(st, dry_run) ==
    IF st.raised THEN st
    ELSE IF dry_run THEN [st EXCEPT !.pending = st.committed, !.rollbacks = @ + 1]
    ELSE [st EXCEPT !.committed = st.pending, !.commits = @ + 1]

\* SQLDB.update_rows; col_dict_list is a list of dicts or a dict of lists
update_rows(a, c, p, table_name, col_dict_list, id_col_name, dry_run) ==
    IF col_dict_list.shape = "list"
    THEN UpdateRowsEnd(UpdateRowsList(a, Step(c, p, FALSE, 0, 0, 0), table_name,
                                      col_dict_list.items, id_col_name, dry_run), dry_run)
    ELSE UpdateRowsDict(c, p)

\* one column of CREATE TABLE: '%s %s' [' default %s'] [' NOT NULL'] [' PRIMARY KEY']
ColumnSql(colname, coltype, notnull, default_value, primary_key) ==
    colname \o " " \o coltype
        \o (IF default_value # Null THEN " default " \o ToStr(default_value) ELSE "")
        \o (IF notnull THEN " NOT NULL" ELSE "")
        \o (IF primary_key THEN " PRIMARY KEY" ELSE "")

\* SQLDB.create_table: 'CREATE TABLE %s(' + columns joined by ', ' + ')'
\* column_info: (col_name, col_type, notnull, default_value, primary_key)
CreateSql(table_name, column_info_list) ==
    "CREATE TABLE " \o table_name \o "("
        \o Join(", ", [i \in 1..Len(column_info_list) |->
                 ColumnSql(column_info_list[i][1], column_info_list[i][2],
                           column_info_list[i][3], column_info_list[i][4],
                           column_info_list[i][5])])
        \o ")"

\* SQLiteDB.create_table: column_info is (cid, name, type, notnull, dflt_value, pk)
SQLiteCreateSql(table_name, column_info_list) ==
    "CREATE TABLE " \o table_name \o "("
        \o Join(", ", [i \in 1..Len(column_info_list) |->
                 ColumnSql(column_info_list[i][2], column_info_list[i][3],
                           column_info_list[i][4], column_info_list[i][5],
                           column_info_list[i][6])])
        \o ")"

\* query_generic(sql) then connection.commit(): create_table, drop_table
ThenCommit(q) ==
    IF q.raised
    THEN [Step(q.committed, q.pending, TRUE, q.commits, q.rollbacks, q.executes)
            EXCEPT !.error = q.error, !.driver_error = q.driver_error, !.sql = q.sql]
    ELSE Ran(Step(q.pending, q.pending, FALSE, q.commits + 1, q.rollbacks, q.executes), q.sql)

ExecuteAndCommit(a, c, p, sql) == ThenCommit(query_generic(a, c, p, sql, <<>>))

\* SQLDB.create_table / SQLiteDB.create_table
create_table(a, c, p, table_name, column_info_list) ==
    ExecuteAndCommit(a, c, p,
        IF a = "SQLiteDB"
        THEN SQLiteCreateSql(table_name,
                 [i \in 1..Len(column_info_list) |-> <<i - 1>> \o column_info_list[i]])
        ELSE CreateSql(table_name, column_info_list))

\* A column specification as the caller writes it: a tuple or a dict (form)
\* carrying col_name and col_type alone (size 2) or all five entries (size 5);
\* has_default: its default_value is not None
ColumnInfo(form, size, col_name, col_type, notnull, has_default, default_value, primary_key) ==
    [form |-> form, size |-> size, col_name |-> col_name, col_type |-> col_type,
     notnull |-> notnull, has_default |-> has_default, default_value |-> default_value,
     primary_key |-> primary_key]

\* colname, coltype, notnull, default_value, primary_key = column_info
\* needs the five values
Unpacks(column_info) == column_info.form = "dict" \/ column_info.size = 5

\* a variant unpacking a tuple of any size
UnpacksAny(column_info) == TRUE

\* the five values of a column specification: those of the tuple, or
\* column_info['col_name'], ['col_type'], .get('notnull', 0),
\* .get('default_value'), .get('primary_key', 0). None and 0 are both Null:
\* the code tests the default for truth only
Unpacked(column_info) ==
    <<column_info.col_name, column_info.col_type,
      column_info.size = 5 /\ column_info.notnull,
      IF column_info.size = 5 /\ column_info.has_default THEN column_info.default_value
      ELSE Null,
      column_info.size = 5 /\ column_info.primary_key>>

\* SQLDB.create_table on column specifications of either form
SQLDB_create_table(a, c, p, table_name, column_info_list) ==
    IF \E i \in 1..Len(column_info_list) : ~Unpacks(column_info_list[i])
    THEN [Step(c, p, TRUE, 0, 0, 0) EXCEPT !.error = "ValueError"]
    ELSE ExecuteAndCommit(a, c, p,
             CreateSql(table_name,
                       [i \in 1..Len(column_info_list) |-> Unpacked(column_info_list[i])]))

\* SQLDB.drop_table / SQLiteDB.drop_table
drop_table(a, c, p, table_name) ==
    ExecuteAndCommit(a, c, p, "DROP TABLE " \o table_name)

\* SQLDB.rename_table / SQLiteDB.rename_table:
\* 'ALTER TABLE %s RENAME TO %s'; query_generic; commit
rename_table(a, c, p, table_name, new_table_name) ==
    ExecuteAndCommit(a, c, p, "ALTER TABLE " \o table_name \o " RENAME TO " \o new_table_name)

\* SQLDB.add_column / SQLiteDB.add_column:
\* 'ALTER TABLE %s ADD COLUMN %s %s' [' default %s'] [' NOT NULL'] [' PRIMARY KEY']
AddColumnSql(table_name, col_name, col_type, notnull, default_value, primary_key) ==
    "ALTER TABLE " \o table_name \o " ADD COLUMN "
        \o ColumnSql(col_name, col_type, notnull, default_value, primary_key)

add_column(a, c, p, table_name, col_name, col_type, notnull, default_value, primary_key) ==
    ExecuteAndCommit(a, c, p, AddColumnSql(table_name, col_name, col_type, notnull,
                                           default_value, primary_key))

\* if not idx_name: idx_name = "%s_IDX" % col_name (None is "" here)
IndexName(col_name, idx_name) == IF idx_name = "" THEN col_name \o "_IDX" ELSE idx_name

\* "CREATE INDEX %s ON %s(%s)" % (idx_name, table_name, col_name)
IndexSql(table_name, col_name, idx_name) ==
    "CREATE INDEX " \o IndexName(col_name, idx_name) \o " ON " \o table_name
        \o "(" \o col_name \o ")"

\* SQLDB.create_index: query_generic(sql); connection.commit()
SQLDB_create_index(a, c, p, table_name, col_name, idx_name) ==
    ExecuteAndCommit(a, c, p, IndexSql(table_name, col_name, idx_name))

\* SQLiteDB.create_index: the statement is formatted and the method ends
SQLiteDB_create_index(a, c, p, table_name, col_name, idx_name) ==
    Step(c, p, FALSE, 0, 0, 0)

\* SQLDB.delete_column: 'ALTER TABLE %s DROP COLUMN %s'; query_generic; commit
SQLDB_delete_column(a, c, p, table_name, col_name) ==
    ExecuteAndCommit(a, c, p, "ALTER TABLE " \o table_name \o " DROP COLUMN " \o col_name)

\* a variant that drops the column as the other adapters do
SQLiteDB_delete_column_executing(a, c, p, table_name, col_name) ==
    ExecuteAndCommit(a, c, p, "ALTER TABLE " \o table_name \o " DROP COLUMN " \o col_name)

\* SQLiteDB.delete_column: print("Warning: ...") and nothing else
SQLiteDB_delete_column(a, c, p, table_name, col_name) ==
    Step(c, p, FALSE, 0, 0, 0)

DeleteColumnWarning == "Warning: deleting a column is not supported by SQLite!"

\* a variant always adding the WHERE part
DeleteSqlAlwaysWhere(table_name, w) == "DELETE FROM " \o table_name \o " WHERE " \o w

\* 'DELETE FROM %s' [+ ' WHERE %s' if where_clause]
DeleteSqlWhere(table_name, w) ==
    "DELETE FROM " \o table_name \o (IF w # "" THEN " WHERE " \o w ELSE "")

DeleteSql(table_name, where_clause) ==
    DeleteSqlWhere(table_name, StripKeyword(where_clause, 5, "WHERE"))

\* after query_generic: connection.rollback() if dry_run else connection.commit()
ThenRollbackOrCommit(q, dry_run) ==
    IF q.raised \/ ~dry_run THEN ThenCommit(q)
    ELSE Ran(Step(q.committed, q.committed, FALSE, q.commits, q.rollbacks + 1, q.executes),
             q.sql)

\* after query_generic: if not dry_run: connection.commit()
ThenCommitUnlessDryRun(q, dry_run) ==
    IF q.raised \/ ~dry_run THEN ThenCommit(q)
    ELSE Ran(Step(q.committed, q.pending, FALSE, q.commits, q.rollbacks, q.executes), q.sql)

\* SQLDB.delete_records
SQLDB_delete_records(a, c, p, table_name, where_clause, dry_run) ==
    ThenRollbackOrCommit(query_generic(a, c, p, DeleteSql(table_name, where_clause), <<>>),
                         dry_run)

\* SQLiteDB.delete_records
SQLiteDB_delete_records(a, c, p, table_name, where_clause, dry_run) ==
    ThenCommitUnlessDryRun(query_generic(a, c, p, DeleteSql(table_name, where_clause), <<>>),
                           dry_run)


-----------------------------------------------------------------------------
(* The wrapper object and its driver connection *)

Classes == {"SQLiteDB", "MySQLDB", "PgSQLDB"}

\* the class whose helper methods the object runs: SQLiteDB overrides them,
\* MySQLDB and PgSQLDB inherit those of SQLDB
AdapterOf(cls) == IF cls = "SQLiteDB" THEN "SQLiteDB" ELSE "SQLDB"

\* An object not yet constructed. connects counts the driver connections
\* opened, closes the calls of connection.close(); stored: self.connection
\* holds a connection; open: that connection is open.
\* driver: the DB-API module the class connects with.
New(cls) ==
    [cls |-> cls, phase |-> "new", outcome |-> "", connects |-> 0, closes |-> 0,
     open |-> FALSE, stored |-> FALSE, has_spatialite |-> "unset",
     teardown_raised |-> FALSE,
     driver |-> IF cls = "SQLiteDB" THEN "sqlite3"
                ELSE IF cls = "MySQLDB" THEN "MySQLdb" ELSE "psycopg2"]

\* postgres.py imports psycopg2 when it is installed (HAS_PSYCOPG2), pg8000
\* otherwise
PgDrivers == {"psycopg2", "pg8000"}

\* what can happen in connect(): the driver's connect raises, (SQLiteDB)
\* enable_load_extension raises, load_extension raises, or nothing raises
Outcomes(cls) ==
    IF cls = "SQLiteDB" THEN {"connect_raises", "enable_raises", "load_raises", "ok"}
    ELSE {"connect_raises", "ok"}

\* self.connection = <driver>.connect(...)
Connected(l) == [l EXCEPT !.connects = @ + 1, !.open = TRUE, !.stored = TRUE]

Aborted(l) == [l EXCEPT !.phase = "failed"]

\* a variant of SQLiteDB.connect without the try/except around load_extension
SQLiteDB_connect_unguarded(l, outcome) ==
    IF outcome = "connect_raises" THEN Aborted(l)
    ELSE IF outcome \in {"enable_raises", "load_raises"} THEN Aborted(Connected(l))
    ELSE [Connected(l) EXCEPT !.has_spatialite = "True"]

\* SQLiteDB.connect: sqlite3.connect; enable_load_extension(True);
\* try: load_extension(..) except: has_spatialite = False else: has_spatialite = True
SQLiteDB_connect(l, outcome) ==
    IF outcome = "connect_raises" THEN Aborted(l)
    ELSE IF outcome = "enable_raises" THEN Aborted(Connected(l))
    ELSE IF outcome = "load_raises" THEN [Connected(l) EXCEPT !.has_spatialite = "False"]
    ELSE [Connected(l) EXCEPT !.has_spatialite = "True"]

\* a variant connecting twice
SQLDB_connect_twice(l, outcome) ==
    IF outcome = "connect_raises" THEN Aborted(l) ELSE Connected(Connected(l))

\* MySQLDB.connect / PgSQLDB.connect: self.connection = <driver>.connect(...)
SQLDB_connect(l, outcome) ==
    IF outcome = "connect_raises" THEN Aborted(l) ELSE Connected(l)

\* __init__ returned, unless connect raised
Constructed(l) == IF l.phase = "failed" THEN l ELSE [l EXCEPT !.phase = "built"]

\* __init__: the arguments are stored, then self.connect()
init(l, outcome) ==
    Constructed(IF l.cls = "SQLiteDB"
                THEN SQLiteDB_connect([l EXCEPT !.outcome = outcome], outcome)
                ELSE SQLDB_connect([l EXCEPT !.outcome = outcome], outcome))

\* SQLDB.close / MySQLDB.close: self.connection.close()
close(l) == [l EXCEPT !.closes = @ + 1, !.open = FALSE]

\* a variant closing the connection only when it is stored and still open
del_once(l) ==
    IF l.stored /\ l.open THEN [close(l) EXCEPT !.phase = "deleted"]
    ELSE [l EXCEPT !.phase = "deleted"]

\* SQLDB.__del__: self.close(); MySQLDB.__del__: self.connection.close().
\* Without a stored connection self.connection is None and the call raises.
del(l) ==
    IF l.stored THEN [close(l) EXCEPT !.phase = "deleted"]
    ELSE [l EXCEPT !.phase = "deleted", !.teardown_raised = TRUE]

\* the calls on the wrapper are made on a constructed object whose
\* connection is open
Usable == life.phase = "built" /\ life.open

MaxCloses == 2

\* the lines kept of what was printed or written to errf
MaxLog == 2

\* cls(...): the constructor
Construct ==
    /\ life.phase = "new"
    /\ \E outcome \in Outcomes(life.cls) : life' = init(life, outcome)
    /\ UNCHANGED <<dbVars, buildVars, logVars, recVars, lastCall, gen2>>

\* db.close(): the connection drops what was not committed
Close ==
    /\ life.phase = "built"
    /\ life.closes < MaxCloses
    /\ life' = close(life)
    /\ pending' = committed
    /\ UNCHANGED <<adapter, committed, gen, lastOp, buildVars, logVars, recVars, lastCall, gen2>>

\* the object is torn down
Del ==
    /\ life.phase \in {"built", "failed"}
    /\ life' = del(life)
    /\ pending' = committed
    /\ UNCHANGED <<adapter, committed, gen, lastOp, buildVars, logVars, recVars, lastCall, gen2>>

-----------------------------------------------------------------------------
(* The calls a program makes on one wrapper object *)

MaxRecs == 2
MaxStops == 2

Adapters == {"SQLDB", "SQLiteDB"}
Ids == {1, 2}
Vals == {1, 2}

\* column_info_list samples (col_name, col_type, notnull, default_value, primary_key)
ColumnInfoLists ==
    {<<<<"id", "INTEGER", TRUE, Null, TRUE>>, <<"v", "INTEGER", FALSE, Null, FALSE>>>>}

\* records as dicts: the (key, value) pairs in the dict's iteration order
Recs == {<<<<"id", 1>>, <<"v", 2>>>>, <<<<"v", 1>>, <<"id", 2>>>>}

RecLists == UNION {SeqsOf(Recs, n) : n \in 1..MaxRecs}

ColDicts == {<<<<"v", x>>>> : x \in Vals}
UpdateWheres == {"id = 1", "WHERE id = 2", ""}
QueryWheres == {""} \cup {"id = " \o ToStr(i) : i \in Ids}

\* statements a caller hands to query_generic, with their values
Statements(a) ==
    {<<"SELECT * FROM t", <<>>>>, <<"DELETE FROM t WHERE id = 1", <<>>>>}
        \cup {<<InsertSql("t", <<<<"id", i>>, <<"v", 1>>>>, DriverPlaceholder(a)), <<i, 1>>>> :
                i \in Ids}

\* The last call made on the wrapper: what it was, whether it raised, the
\* commits and rollbacks it made, and (fresh) the record it inserted when it
\* was a successful add_records of one record with dry_run=False.
NoOp == [name |-> "", dry_run |-> FALSE, raised |-> FALSE, commits |-> 0,
         rollbacks |-> 0, fresh |-> NoRec, executes |-> 0, error |-> "",
         driver_error |-> ""]

Op(name, dry_run, st, fresh) ==
    [name |-> name, dry_run |-> dry_run, raised |-> st.raised, commits |-> st.commits,
     rollbacks |-> st.rollbacks, fresh |-> fresh, executes |-> st.executes,
     error |-> st.error, driver_error |-> st.driver_error]

\* a helper call returns: the connection and the call's record change
\* The arguments of the last call when it was a create_index, delete_column
\* or delete_records, and the statement it handed to the driver ("": none)
\* arg: the col_dict_list of update_rows, a list of dicts (items) or a dict of
\* lists (the keys and, in their order, the lists); updates: the statements
\* it issued
NoDdlCall ==
    [name |-> "", col_name |-> "", idx_name |-> "", where_clause |-> "", sql |-> "",
     arg |-> [shape |-> "", items |-> <<>>, keys |-> <<>>, lists |-> <<>>],
     updates |-> <<>>, col_values |-> <<>>, order_clause |-> "", rowid_name |-> "",
     columns |-> <<>>]

HelperDone(name, dry_run, st, fresh) ==
    /\ Usable
    /\ committed' = st.committed
    /\ pending' = st.pending
    /\ lastOp' = Op(name, dry_run, st, fresh)
    /\ UNCHANGED <<adapter, gen, buildVars>>

Helper(name, dry_run, st, fresh) ==
    /\ HelperDone(name, dry_run, st, fresh)
    /\ lastCall' = NoDdlCall
    /\ UNCHANGED <<logVars, recVars, life, gen2>>

Called(name, col_name, idx_name, where_clause, st) ==
    lastCall' = [NoDdlCall EXCEPT !.name = name, !.col_name = col_name,
                                  !.idx_name = idx_name, !.where_clause = where_clause,
                                  !.sql = st.sql]

\* a call of a helper that records its arguments and prints nothing
Quiet(name, col_name, idx_name, where_clause, dry_run, st) ==
    /\ HelperDone(name, dry_run, st, NoRec)
    /\ Called(name, col_name, idx_name, where_clause, st)
    /\ UNCHANGED <<logVars, recVars, life, gen2>>

\* the database holds one table at a time: the program creates t when no
\* table of another name exists
CreateTable ==
    \E info \in ColumnInfoLists :
        /\ pending.name \in {"", "t"}
        /\ Quiet("create_table", "", "", "", FALSE, create_table(adapter, committed, pending, "t", info))

DropTable ==
    Quiet("drop_table", "", "", "", FALSE, drop_table(adapter, committed, pending, "t"))

\* the record a successful add_records of one record with dry_run=False wrote
Fresh(st, recs, dry_run) ==
    IF ~st.raised /\ ~dry_run /\ Len(recs) = 1 THEN recs[1] ELSE NoRec

AddRecordsDone(st, recs, dry_run) ==
    Helper("add_records", dry_run, st, Fresh(st, recs, dry_run))

AddRecords ==
    \E recs \in RecLists, dry_run \in BOOLEAN :
        AddRecordsDone(IF adapter = "SQLiteDB"
                       THEN SQLiteDB_add_records(adapter, committed, pending, "t", recs, dry_run)
                       ELSE SQLDB_add_records(adapter, committed, pending, "t", recs, dry_run),
                       recs, dry_run)

UpdateRow ==
    \E col_dict \in ColDicts, where_clause \in UpdateWheres, dry_run \in BOOLEAN :
        Helper("update_row", dry_run,
               IF adapter = "SQLiteDB"
               THEN SQLiteDB_update_row(adapter, committed, pending, "t", col_dict,
                                        where_clause, dry_run)
               ELSE SQLDB_update_row(adapter, committed, pending, "t", col_dict,
                                     where_clause, dry_run),
               NoRec)


\* col_dict_list samples: the records (1, v1) and (2, v2) as a list of dicts
\* and as a dict of lists
UpdateLists ==
    {[shape |-> "list", items |-> <<<<<<"id", 1>>, <<"v", x>>>>, <<<<"v", y>>, <<"id", 2>>>>>>,
      keys |-> <<>>, lists |-> <<>>] : x \in Vals, y \in Vals}
        \cup {[shape |-> "dict", items |-> <<>>, keys |-> <<"id", "v">>,
                lists |-> <<<<1, 2>>, <<x, y>>>>] : x \in Vals, y \in Vals}

\* the UPDATE statement update_row makes for rec, with its values
UpdateOf(a, table_name, rec, id_col_name) ==
    <<UpdateSql(table_name, DictPop(rec, id_col_name), RowWhere(rec, id_col_name),
                IF a = "SQLiteDB" THEN "?" ELSE Placeholder),
      Values(DictPop(rec, id_col_name))>>

\* the statements update_rows handed to the driver: those of its first records
Issued(a, col_dict_list, st) ==
    IF col_dict_list.shape = "list"
    THEN [i \in 1..st.executes |-> UpdateOf(a, "t", col_dict_list.items[i], "id")]
    ELSE <<>>

UpdateRowsDone(col_dict_list, dry_run, st) ==
    /\ HelperDone("update_rows", dry_run, st, NoRec)
    /\ lastCall' = [NoDdlCall EXCEPT !.name = "update_rows", !.arg = col_dict_list,
                                     !.updates = Issued(adapter, col_dict_list, st)]
    /\ UNCHANGED <<logVars, recVars, life, gen2>>

\* db.update_rows("t", col_dict_list, "id", dry_run)
UpdateRows ==
    \E col_dict_list \in UpdateLists, dry_run \in BOOLEAN :
        UpdateRowsDone(col_dict_list, dry_run,
                       update_rows(adapter, committed, pending, "t", col_dict_list, "id",
                                   dry_run))

\* column specifications of the create_table calls: the key column in full,
\* and the column v in both forms, short and in full, without a default and
\* with the defaults 0 and 1
Forms == {"tuple", "dict"}
KeyColumns == {ColumnInfo(f, 5, "id", "INTEGER", TRUE, FALSE, Null, TRUE) : f \in Forms}
ValueColumns ==
    {ColumnInfo(f, 2, "v", "INTEGER", FALSE, FALSE, Null, FALSE) : f \in Forms}
        \cup {ColumnInfo(f, 5, "v", "INTEGER", n, FALSE, Null, FALSE) : f \in Forms, n \in BOOLEAN}
        \cup {ColumnInfo(f, 5, "v", "INTEGER", FALSE, TRUE, d, FALSE) : f \in Forms, d \in {0, 1}}
ColumnSpecLists == {<<k, v>> : k \in KeyColumns, v \in ValueColumns} \cup {<<v>> : v \in ValueColumns}

\* db.create_table("t", column_info_list) on column specifications
CreateTableFrom ==
    \E column_info_list \in ColumnSpecLists :
        /\ pending.name \in {"", "t"}
        /\ HelperDone("create_table", FALSE,
                      SQLDB_create_table(adapter, committed, pending, "t", column_info_list),
                      NoRec)
        /\ lastCall' = [NoDdlCall EXCEPT !.name = "create_table",
                                         !.sql = SQLDB_create_table(adapter, committed, pending,
                                                                    "t", column_info_list).sql,
                                         !.columns = column_info_list]
        /\ UNCHANGED <<logVars, recVars, life, gen2>>

\* db.rename_table(...): t to t2 and back
RenameTable ==
    \E names \in {<<"t", "t2">>, <<"t2", "t">>} :
        Quiet("rename_table", "", "", "", FALSE,
              rename_table(adapter, committed, pending, names[1], names[2]))

\* db.add_column("t", "v", "INTEGER"), with or without a default value: the
\* column that delete_column removed
AddColumn ==
    \E default_value \in {Null, 1} :
        Quiet("add_column", "v", "", "", FALSE,
              add_column(adapter, committed, pending, "t", "v", "INTEGER", FALSE,
                         default_value, FALSE))

IndexNames == {"", "i1"}
IndexColumns == {"v"}

CreateIndex ==
    \E col_name \in IndexColumns, idx_name \in IndexNames :
        Quiet("create_index", col_name, idx_name, "", FALSE,
              IF adapter = "SQLiteDB"
              THEN SQLiteDB_create_index(adapter, committed, pending, "t", col_name, idx_name)
              ELSE SQLDB_create_index(adapter, committed, pending, "t", col_name, idx_name))

Warned(name, col_name, st) ==
    /\ Len(stdout) < MaxLog
    /\ HelperDone(name, FALSE, st, NoRec)
    /\ Called(name, col_name, "", "", st)
    /\ stdout' = Append(stdout, DeleteColumnWarning \o "\n")
    /\ UNCHANGED <<errf, logCall, recVars, life, gen2>>

DeleteColumn ==
    \E col_name \in IndexColumns :
        IF adapter = "SQLiteDB"
        THEN Warned("delete_column", col_name,
                    SQLiteDB_delete_column(adapter, committed, pending, "t", col_name))
        ELSE Quiet("delete_column", col_name, "", "", FALSE,
                   SQLDB_delete_column(adapter, committed, pending, "t", col_name))

DeleteWheres == {"", "id = 1", "WHERE id = 1", "where v = 2", "WHERE"}

DeleteRecords ==
    \E where_clause \in DeleteWheres, dry_run \in BOOLEAN :
        Quiet("delete_records", "", "", where_clause, dry_run,
              IF adapter = "SQLiteDB"
              THEN SQLiteDB_delete_records(adapter, committed, pending, "t", where_clause,
                                           dry_run)
              ELSE SQLDB_delete_records(adapter, committed, pending, "t", where_clause,
                                        dry_run))

\* query_generic returned q: the caller keeps the generator (keep) or drops it
Returned(name, sql, q, keep) ==
    /\ Usable
    /\ committed' = q.committed
    /\ pending' = q.pending
    /\ lastOp' = Op(name, FALSE, q, NoRec)
    /\ gen' = IF keep /\ ~q.raised
              THEN NewGen(sql, q.rows, q.cols, lastOp.fresh)
              ELSE NoGen
    /\ UNCHANGED <<adapter, buildVars>>

\* db.query_generic(sql, values), with verbose=False and errf=None on an
\* object whose verbose is False (the class default): nothing is logged
QueryGenericCall(keep) ==
    \E s \in Statements(adapter) :
        /\ Returned("query_generic", s[1],
                    query_generic(adapter, committed, pending, s[1], s[2]), keep)
        /\ UNCHANGED envVars

\* SQLDB.query(table_clause, where_clause=w): build_sql_query, then query_generic
query(a, c, p, table_clause, column_clause, join_clause, where_clause, having_clause, order_clause, group_clause) ==
    query_generic(a, c, p,
        build_sql_query(table_clause, column_clause, join_clause, where_clause,
                        having_clause, order_clause, group_clause),
        <<>>)

\* WHERE rowid = n
RowidIs(db, n) == [ok |-> TRUE, all |-> FALSE, col |-> db.pk, val |-> n]

\* cursor.executemany('UPDATE t SET col=:value WHERE rowid=:rowid', col_data):
\* one UPDATE per entry of col_data, in its order
RECURSIVE ExecuteManyUpdates(_, _, _, _, _)
ExecuteManyUpdates(db, table_name, col_name, row_ids, col_values) ==
    IF Len(row_ids) = 0 \/ Len(col_values) = 0 THEN Done(db)
    ELSE IF UpdateSet(db, table_name, <<col_name>>, RowidIs(db, Head(row_ids)),
                      <<Head(col_values)>>, 1).raised
    THEN Raise(db)
    ELSE ExecuteManyUpdates(UpdateSet(db, table_name, <<col_name>>,
                                      RowidIs(db, Head(row_ids)),
                                      <<Head(col_values)>>, 1).db,
                            table_name, col_name, Tail(row_ids), Tail(col_values))

\* assert len(row_ids) == len(col_values); cursor.executemany(query, col_data);
\* if not dry_run: self.connection.commit()
UpdateColumnWrite(q, table_name, col_name, row_ids, col_values, dry_run) ==
    IF Len(row_ids) # Len(col_values)
    THEN [Step(q.committed, q.pending, TRUE, 0, 0, 1) EXCEPT !.error = "AssertionError"]
    ELSE CommitUnlessDryRun(q.committed,
                            ExecuteManyUpdates(q.pending, table_name, col_name, row_ids, col_values).db,
                            ExecuteManyUpdates(q.pending, table_name, col_name, row_ids, col_values).raised,
                            2, dry_run)

\* row_ids = [rec['rowid'] for rec in self.query(table_name, 'rowid', ...)]:
\* q is the query's outcome and rowid_name the name the driver gave the
\* result column; a sqlite3.Row raises IndexError for a name it does not hold
UpdateColumnRowIds(q, table_name, col_name, col_values, dry_run, rowid_name) ==
    IF q.raised THEN Ran(Propagated(Step(q.committed, q.pending, TRUE, 0, 0, 1), q.error), q.sql)
    ELSE IF Len(q.rows) > 0 /\ rowid_name # "rowid"
    THEN [Step(q.committed, q.pending, TRUE, 0, 0, 1) EXCEPT !.error = "IndexError"]
    ELSE UpdateColumnWrite(q, table_name, col_name, [i \in 1..Len(q.rows) |-> q.rows[i][1]],
                           col_values, dry_run)

\* SQLiteDB.update_column
SQLiteDB_update_column(a, c, p, table_name, col_name, col_values, where_clause, order_clause, dry_run, rowid_name) ==
    UpdateColumnRowIds(query(a, c, p, Str(table_name), Str("rowid"), Str(""), where_clause, "",
                             order_clause, ""),
                       table_name, col_name, col_values, dry_run, rowid_name)

\* The name of the result column of "SELECT rowid": SQLite leaves the name of
\* a result column without AS unspecified; for a table whose rowid has an
\* alias it is the alias (what releases up to 3.40 answer) or "rowid"
RowidNames(db) == IF db.pk = "" THEN {"rowid"} ELSE {"rowid", db.pk}

\* col_values and clauses of the update_column calls
ColumnValues == {<<1>>, <<2, 1>>, <<1, 1>>}
ColumnWheres == {"", "id = 1"}
ColumnOrders == {"", "rowid"}

UpdateColumnDone(col_values, where_clause, order_clause, dry_run, rowid_name, st) ==
    /\ HelperDone("update_column", dry_run, st, NoRec)
    /\ lastCall' = [NoDdlCall EXCEPT !.name = "update_column", !.col_name = "v",
                                     !.where_clause = where_clause,
                                     !.col_values = col_values,
                                     !.order_clause = order_clause,
                                     !.rowid_name = rowid_name]
    /\ UNCHANGED <<logVars, recVars, life, gen2>>

\* db.update_column("t", "v", col_values, where_clause, order_clause, dry_run)
\* on an SQLiteDB
UpdateColumn ==
    \E col_values \in ColumnValues, where_clause \in ColumnWheres,
       order_clause \in ColumnOrders, dry_run \in BOOLEAN, rowid_name \in RowidNames(pending) :
        /\ adapter = "SQLiteDB"
        /\ UpdateColumnDone(col_values, where_clause, order_clause, dry_run, rowid_name,
                            SQLiteDB_update_column(adapter, committed, pending, "t", "v",
                                                   col_values, where_clause, order_clause,
                                                   dry_run, rowid_name))

QueryCall(keep) ==
    \E w \in QueryWheres :
        /\ Returned("query", build_sql_query(Str("t"), Str("*"), Str(""), w, "", "", ""),
                    query(adapter, committed, pending, Str("t"), Str("*"), Str(""), w, "", "", ""),
                    keep)
        /\ UNCHANGED envVars

\* simpledb.SQLDB.query (the single-file revision, without join_clause):
\* build_sql_query(table_clause, column_clause, where_clause, having_clause,
\* order_clause), then query_generic
simpledb_query(a, c, p, table_clause, column_clause, where_clause, having_clause, order_clause, group_clause) ==
    query_generic(a, c, p,
        simpledb_build_sql_query(table_clause, column_clause, where_clause, having_clause,
                                 order_clause, ""),
        <<>>)

\* query_sqlite_db: build_sql_query(table_clause, column_clause, join_clause,
\* where_clause, having_clause, order_clause), then query_sqlite_db_generic,
\* which executes the query on a connection of its own
query_sqlite_db(c, table_clause, column_clause, join_clause, where_clause, having_clause, order_clause, group_clause) ==
    query_generic("SQLiteDB", c, c,
        build_sql_query(table_clause, column_clause, join_clause, where_clause,
                        having_clause, order_clause, ""),
        <<>>)

\* query_mysql_db: build_sql_query with the seven clauses, then
\* query_mysql_db_generic
query_mysql_db(c, table_clause, column_clause, join_clause, where_clause, having_clause, order_clause, group_clause) ==
    query_generic("SQLDB", c, c,
        build_sql_query(table_clause, column_clause, join_clause, where_clause,
                        having_clause, order_clause, group_clause),
        <<>>)

\* query_pgsql_db: build_sql_query with the seven clauses, then
\* query_pgsql_db_generic
query_pgsql_db(c, table_clause, column_clause, join_clause, where_clause, having_clause, order_clause, group_clause) ==
    query_generic("SQLDB", c, c,
        build_sql_query(table_clause, column_clause, join_clause, where_clause,
                        having_clause, order_clause, group_clause),
        <<>>)

\* an entry point was called with the clauses of call: the statement it
\* handed to cursor.execute
EntryPoint(impl, q) ==
    /\ result.state = "none"
    /\ result' = [state |-> "executed", impl |-> impl, query |-> q.sql]
    /\ UNCHANGED <<call, dbVars, envVars>>

SQLDBQuery ==
    EntryPoint("SQLDB.query",
               query(adapter, committed, pending, call.table, call.column, call.join,
                     Kw(call.kwargs, "where_clause"), Kw(call.kwargs, "having_clause"),
                     Kw(call.kwargs, "order_clause"), Kw(call.kwargs, "group_clause")))

SimpledbQuery ==
    /\ call.join = Str("")
    /\ EntryPoint("simpledb.SQLDB.query",
                  simpledb_query(adapter, committed, pending, call.table, call.column,
                                 Kw(call.kwargs, "where_clause"),
                                 Kw(call.kwargs, "having_clause"),
                                 Kw(call.kwargs, "order_clause"),
                                 Kw(call.kwargs, "group_clause")))

QuerySqliteDb ==
    EntryPoint("query_sqlite_db",
               query_sqlite_db(committed, call.table, call.column, call.join,
                               Kw(call.kwargs, "where_clause"), Kw(call.kwargs, "having_clause"),
                               Kw(call.kwargs, "order_clause"), Kw(call.kwargs, "group_clause")))

QueryMysqlDb ==
    EntryPoint("query_mysql_db",
               query_mysql_db(committed, call.table, call.column, call.join,
                              Kw(call.kwargs, "where_clause"), Kw(call.kwargs, "having_clause"),
                              Kw(call.kwargs, "order_clause"), Kw(call.kwargs, "group_clause")))

QueryPgsqlDb ==
    EntryPoint("query_pgsql_db",
               query_pgsql_db(committed, call.table, call.column, call.join,
                              Kw(call.kwargs, "where_clause"), Kw(call.kwargs, "having_clause"),
                              Kw(call.kwargs, "order_clause"), Kw(call.kwargs, "group_clause")))

\* calls of the query entry points: every combination of the clauses
QueryCalls ==
    {[table |-> Str("t"), column |-> c, join |-> j, kwargs |-> KwArgs(SigOrder, w, h, r, g)] :
        c \in {Str("*"), Lst(<<"a", "n">>)},
        j \in {Str(""), Str("JOIN t2 ON t.id = t2.id")},
        w \in {"", "id = 1"}, h \in {"", "n > 1"}, r \in {"", "b"}, g \in GroupClauses}

\* the statement runs and the caller drops the returned generator
QueryGeneric == QueryGenericCall(FALSE)
Query == QueryCall(FALSE)

\* the caller keeps the returned generator to iterate it
QueryGenericKept == QueryGenericCall(TRUE)
QueryKept == QueryCall(TRUE)

\* a variant printing the query although errf is given
LogQueryBoth(out, err, sql, verbose, self_verbose, has_errf) ==
    [stdout |-> IF verbose \/ self_verbose THEN Append(out, sql \o "\n") ELSE out,
     errf |-> IF has_errf THEN Append(err, sql \o "\n") ELSE err]

\* SQLDB.query_generic: if errf != None: errf.write("%s\n" % query)
\*                      elif verbose or self.verbose: print(query)
\* out and err are what was written to standard output and to errf so far
LogQuery(out, err, sql, verbose, self_verbose, has_errf) ==
    IF has_errf THEN [stdout |-> out, errf |-> Append(err, sql \o "\n")]
    ELSE IF verbose \/ self_verbose THEN [stdout |-> Append(out, sql \o "\n"), errf |-> err]
    ELSE [stdout |-> out, errf |-> err]


\* statements of the logged calls, with their values
LogStatements == {<<"SELECT * FROM t", <<>>>>, <<"DELETE FROM t WHERE id = 1", <<>>>>}

NoLogCall == [sql |-> "", verbose |-> FALSE, self_verbose |-> FALSE, errf |-> FALSE]

\* what the call wrote
Wrote(l) == stdout' = l.stdout /\ errf' = l.errf

\* db.query_generic(sql, verbose=verbose, errf=errf) on an object whose
\* verbose attribute is self_verbose; errf is a file object or None
QueryGenericLogged ==
    \E s \in LogStatements, verbose \in BOOLEAN, self_verbose \in BOOLEAN, has_errf \in BOOLEAN :
        /\ Len(stdout) < MaxLog
        /\ Len(errf) < MaxLog
        /\ Wrote(LogQuery(stdout, errf, s[1], verbose, self_verbose, has_errf))
        /\ logCall' = [sql |-> s[1], verbose |-> verbose, self_verbose |-> self_verbose,
                       errf |-> has_errf]
        /\ Returned("query_generic", s[1],
                    query_generic(adapter, committed, pending, s[1], s[2]), FALSE)
        /\ UNCHANGED <<recVars, life, lastCall, gen2>>

\* rows and names of the lookups; the values are strings (TEXT columns)
LookupCols == {<<"id", "v">>, <<"id", "db">>}
LookupVals == {"1", "w", "id"}
LookupNames == {"id", "v", "w", "db"}

LookupCalls ==
    {[rowtype |-> t, rec |-> SQLRecord(cols, <<x, y>>), name |-> n, default_value |-> "d"] :
        t \in RowTypes, cols \in LookupCols, x \in LookupVals, y \in LookupVals,
        n \in LookupNames}

NoLookup == [rowtype |-> "dict", rec |-> SQLRecord(<<>>, <<>>), name |-> "", default_value |-> ""]
NoLookupResult == [op |-> "", raised |-> FALSE, value |-> ""]

Looked(op, r) ==
    /\ recResult.op = ""
    /\ recResult' = [op |-> op, raised |-> r.raised, value |-> r.value]
    /\ UNCHANGED <<recCall, logVars, dbVars, buildVars, life, lastCall, gen2>>

\* record[name]
GetItemCall == Looked("getitem", getitem(recCall.rec, recCall.name))

\* record.name
GetAttrCall == Looked("getattr", getattr(recCall.rec, recCall.name))

\* record.get(name, default_value)
GetCall ==
    Looked("get", get(recCall.rec, recCall.rowtype, recCall.name, recCall.default_value))

\* next(gen) on the generator the caller holds
NextRecord ==
    /\ Usable
    /\ gen.state # "none"
    /\ gen.stops < MaxStops
    /\ gen' = IF life.cls = "PgSQLDB"
              THEN PgSQLDB_gen_sql_records_next(gen, life.driver = "psycopg2")
              ELSE gen_sql_records_next(gen)
    /\ UNCHANGED <<adapter, committed, pending, lastOp, buildVars, envVars>>

\* a variant in which the wrapper has one cursor: executing the second query
\* replaces the rows the first generator has yet to fetch
SharedCursor(g, q) == IF g.state = "created" THEN [g EXCEPT !.cursor = q.rows] ELSE g

\* get_cursor() returns self.connection.cursor(), a new cursor for every
\* query_generic: the generator g of an earlier query keeps its cursor when
\* the query q is executed
OwnCursor(g, q) == g

\* a second query while the caller holds the generator of a first one:
\* db.query("t", where_clause=w), the generator kept as well
SecondReturned(sql, q) ==
    /\ Usable
    /\ gen.state # "none"
    /\ gen2.state = "none"
    /\ ~q.raised
    /\ committed' = q.committed
    /\ pending' = q.pending
    /\ lastOp' = Op("query", FALSE, q, NoRec)
    /\ gen' = OwnCursor(gen, q)
    /\ gen2' = NewGen(sql, q.rows, q.cols, NoRec)
    /\ UNCHANGED <<adapter, buildVars, logVars, recVars, life, lastCall>>

SecondQuery ==
    \E w \in QueryWheres :
        SecondReturned(build_sql_query(Str("t"), Str("*"), Str(""), w, "", "", ""),
                       query(adapter, committed, pending, Str("t"), Str("*"), Str(""), w, "", "", ""))

\* next(gen2) on the generator of the second query
NextRecordSecond ==
    /\ Usable
    /\ gen2.state # "none"
    /\ gen2.stops < MaxStops
    /\ gen2' = gen_sql_records_next(gen2)
    /\ UNCHANGED <<dbVars, buildVars, logVars, recVars, life, lastCall>>

\* db.connection.commit() / db.connection.rollback() by the caller
ConnectionCommit ==
    /\ Usable
    /\ committed' = pending
    /\ lastOp' = [NoOp EXCEPT !.name = "connection.commit", !.commits = 1]
    /\ UNCHANGED <<adapter, pending, gen, buildVars, envVars>>

ConnectionRollback ==
    /\ Usable
    /\ pending' = committed
    /\ lastOp' = [NoOp EXCEPT !.name = "connection.rollback", !.rollbacks = 1]
    /\ UNCHANGED <<adapter, committed, gen, buildVars, envVars>>

-----------------------------------------------------------------------------
(* Specifications *)

\* a constructed object of the class that has the adapter's helper methods
Built(a) == init(New(IF a = "SQLiteDB" THEN "SQLiteDB" ELSE "MySQLDB"), "ok")

\* One wrapper object over a new, empty database
Init ==
    /\ adapter \in Adapters
    /\ life = Built(adapter)
    /\ committed = NoTable
    /\ pending = NoTable
    /\ gen = NoGen
    /\ gen2 = NoGen
    /\ lastOp = NoOp
    /\ call = NoCall
    /\ result = NoResult
    /\ stdout = <<>>
    /\ errf = <<>>
    /\ logCall = NoLogCall
    /\ recCall = NoLookup
    /\ recResult = NoLookupResult
    /\ lastCall = NoDdlCall

\* The write helpers and the executor on the connection's transaction
Next ==
    \/ CreateTable
    \/ DropTable
    \/ AddRecords
    \/ UpdateRow
    \/ QueryGeneric
    \/ Query
    \/ ConnectionCommit
    \/ ConnectionRollback

Spec == Init /\ [][Next]_vars

\* Queries whose returned generators the caller iterates
NextIter ==
    \/ CreateTable
    \/ AddRecords
    \/ QueryGenericKept
    \/ QueryKept
    \/ NextRecord

SpecIter == Init /\ [][NextIter]_vars

\* A PgSQLDB object over a new, empty database, with either driver
InitPg ==
    /\ life \in {[init(New("PgSQLDB"), "ok") EXCEPT !.driver = d] : d \in PgDrivers}
    /\ adapter = AdapterOf(life.cls)
    /\ committed = NoTable
    /\ pending = NoTable
    /\ gen = NoGen
    /\ gen2 = NoGen
    /\ lastOp = NoOp
    /\ call = NoCall
    /\ result = NoResult
    /\ stdout = <<>>
    /\ errf = <<>>
    /\ logCall = NoLogCall
    /\ recCall = NoLookup
    /\ recResult = NoLookupResult
    /\ lastCall = NoDdlCall

NextPg ==
    \/ CreateTable
    \/ AddRecords
    \/ QueryKept
    \/ NextRecord

SpecPg == InitPg /\ [][NextPg]_vars

\* Queries that log their statement
NextLog ==
    \/ CreateTable
    \/ QueryGenericLogged

SpecLog == Init /\ [][NextLog]_vars

\* An object from before its construction to its teardown
InitLife ==
    /\ life \in {New(cls) : cls \in Classes}
    /\ adapter = AdapterOf(life.cls)
    /\ committed = NoTable
    /\ pending = NoTable
    /\ gen = NoGen
    /\ gen2 = NoGen
    /\ lastOp = NoOp
    /\ call = NoCall
    /\ result = NoResult
    /\ stdout = <<>>
    /\ errf = <<>>
    /\ logCall = NoLogCall
    /\ recCall = NoLookup
    /\ recResult = NoLookupResult
    /\ lastCall = NoDdlCall

NextLife ==
    \/ Construct
    \/ CreateTable
    \/ DropTable
    \/ AddRecords
    \/ UpdateRow
    \/ QueryGeneric
    \/ Query
    \/ ConnectionCommit
    \/ ConnectionRollback
    \/ Close
    \/ Del

SpecLife == InitLife /\ [][NextLife]_vars

\* The schema and row helpers on one wrapper object
NextDdl ==
    \/ CreateTable
    \/ AddRecords
    \/ CreateIndex
    \/ DeleteColumn
    \/ DeleteRecords

SpecDdl == Init /\ [][NextDdl]_vars

\* Every write helper on one wrapper object
NextWrite ==
    \/ CreateTable
    \/ DropTable
    \/ RenameTable
    \/ AddColumn
    \/ DeleteColumn
    \/ CreateIndex
    \/ AddRecords
    \/ DeleteRecords
    \/ UpdateRow

\* Updates of several rows by one call
NextRows ==
    \/ CreateTable
    \/ AddRecords
    \/ UpdateRows

SpecRows == Init /\ [][NextRows]_vars

\* update_column on an SQLiteDB
InitLite == Init /\ adapter = "SQLiteDB"

NextColumn ==
    \/ CreateTable
    \/ AddRecords
    \/ UpdateColumn

SpecColumn == InitLite /\ [][NextColumn]_vars

\* a wrapper object with the helper methods of SQLDB
InitBase == Init /\ adapter = "SQLDB"

SpecWrite == InitBase /\ [][NextWrite]_vars

\* Lookups on one record
InitRec ==
    /\ life = Built("SQLDB")
    /\ recCall \in LookupCalls
    /\ recResult = NoLookupResult
    /\ lastCall = NoDdlCall
    /\ adapter = "SQLDB"
    /\ committed = NoTable
    /\ pending = NoTable
    /\ gen = NoGen
    /\ gen2 = NoGen
    /\ lastOp = NoOp
    /\ call = NoCall
    /\ result = NoResult
    /\ stdout = <<>>
    /\ errf = <<>>
    /\ logCall = NoLogCall

NextRec ==
    \/ GetItemCall
    \/ GetAttrCall
    \/ GetCall

SpecRec == InitRec /\ [][NextRec]_vars

\* build_sql_query applied to each bounded call
InitBuild ==
    /\ life = Built("SQLDB")
    /\ call \in Calls
    /\ result = NoResult
    /\ adapter = "SQLDB"
    /\ committed = NoTable
    /\ pending = NoTable
    /\ gen = NoGen
    /\ gen2 = NoGen
    /\ lastOp = NoOp
    /\ stdout = <<>>
    /\ errf = <<>>
    /\ logCall = NoLogCall
    /\ recCall = NoLookup
    /\ recResult = NoLookupResult
    /\ lastCall = NoDdlCall

NextBuild ==
    \/ BuildSqlQuery
    \/ SimpledbBuildSqlQuery

SpecBuild == InitBuild /\ [][NextBuild]_vars

\* build_sql_query applied to fragments whose first word is or begins with a
\* keyword
InitWords ==
    /\ life = Built("SQLDB")
    /\ call \in WordCalls
    /\ result = NoResult
    /\ adapter = "SQLDB"
    /\ committed = NoTable
    /\ pending = NoTable
    /\ gen = NoGen
    /\ gen2 = NoGen
    /\ lastOp = NoOp
    /\ stdout = <<>>
    /\ errf = <<>>
    /\ logCall = NoLogCall
    /\ recCall = NoLookup
    /\ recResult = NoLookupResult
    /\ lastCall = NoDdlCall

SpecWords == InitWords /\ [][NextBuild]_vars

\* One call of a query entry point
InitQuery ==
    /\ life = Built("SQLDB")
    /\ call \in QueryCalls
    /\ result = NoResult
    /\ adapter = "SQLDB"
    /\ committed = NoTable
    /\ pending = NoTable
    /\ gen = NoGen
    /\ gen2 = NoGen
    /\ lastOp = NoOp
    /\ stdout = <<>>
    /\ errf = <<>>
    /\ logCall = NoLogCall
    /\ recCall = NoLookup
    /\ recResult = NoLookupResult
    /\ lastCall = NoDdlCall

NextQuery ==
    \/ SQLDBQuery
    \/ SimpledbQuery
    \/ QuerySqliteDb
    \/ QueryMysqlDb
    \/ QueryPgsqlDb

SpecQuery == InitQuery /\ [][NextQuery]_vars


-----------------------------------------------------------------------------
(* Properties of build_sql_query *)

\* the fragment the call passed under a keyword
Fragment(name) == Kw(call.kwargs, name)

BaseOk == result.state = "ok" /\ result.impl = "base"

\* the text each part of the query starts with, in the documented order
Markers == <<" FROM ", "JOIN", " WHERE ", " GROUP BY ", " HAVING ", " ORDER BY ">>

\* whether the call supplied the part
Supplied ==
    <<TRUE, Truthy(call.join), Fragment("where_clause") # "", Fragment("group_clause") # "",
      Fragment("having_clause") # "", Fragment("order_clause") # "">>

\* C2: the query starts with SELECT, every supplied part is present, and the
\* supplied parts come in the order FROM, joins, WHERE, GROUP BY, HAVING,
\* ORDER BY, whatever the order of the keyword arguments.
C2_FixedClauseOrder ==
    BaseOk =>
        /\ Take(result.query, 7) = "SELECT "
        /\ \A i \in 1..Len(Markers) : Supplied[i] => Find(result.query, Markers[i]) > 7
        /\ \A i, j \in 1..Len(Markers) :
              (i < j /\ Supplied[i] /\ Supplied[j])
                  => Find(result.query, Markers[i]) < Find(result.query, Markers[j])

\* every part supplied, keyword arguments not in parameter order
C2_Witness ==
    /\ BaseOk
    /\ \A i \in 1..Len(Markers) : Supplied[i]
    /\ call.kwargs[1][1] = "order_clause"

\* C3: a where_clause "WHERE " + p, in any letter case of the keyword, gives
\* the same query string as the where_clause p.
C3_WhereKeywordOptional ==
    (BaseOk /\ Upper(Take(Fragment("where_clause"), 6)) = "WHERE ")
        => result.query =
             build_sql_query(call.table, call.column, call.join,
                             Drop(Fragment("where_clause"), 6), Fragment("having_clause"),
                             Fragment("order_clause"), Fragment("group_clause"))

\* the four keyworded clauses: parameter, keyword, keyword length
Keyworded ==
    {<<"where_clause", "WHERE", 5>>, <<"group_clause", "GROUP BY", 8>>,
     <<"having_clause", "HAVING", 6>>, <<"order_clause", "ORDER BY", 8>>}

\* the text begins, after whitespace and in any letter case, with the keyword
Begins(text, k) == Upper(Take(LStrip(text), k[3])) = k[2]

\* the text begins with the keyword twice
BeginsTwice(text, k) == Begins(text, k) /\ Begins(Drop(LStrip(text), k[3]), k)

\* the query's text after the keyword the builder introduced
AfterKeyword(q, k) == After(q, " " \o k[2] \o " ")

\* C4 as stated: whenever the fragment begins with the keyword, the keyword
\* the builder introduced is not immediately followed by the same keyword.
C4_NeverDoubled ==
    BaseOk =>
        \A k \in Keyworded :
            Begins(Fragment(k[1]), k) => ~Begins(AfterKeyword(result.query, k), k)

\* C4: one leading occurrence of the keyword is stripped: the keyword the
\* builder introduced is followed by the same keyword exactly when the
\* caller's fragment began with the keyword twice.
C4_StripsOneKeyword ==
    BaseOk =>
        \A k \in Keyworded :
            Fragment(k[1]) # ""
                => (Begins(AfterKeyword(result.query, k), k) <=> BeginsTwice(Fragment(k[1]), k))

\* a fragment beginning with whitespace and the keyword in lower case
C4_Witness ==
    /\ BaseOk
    /\ Fragment("where_clause") = "  where id = 1"
    /\ Fragment("order_clause") = " order by b"
    /\ Find(result.query, " WHERE ") > 0

ColumnsText == IF call.column.list THEN Join(", ", call.column.items) ELSE call.column.s
TablesText == IF call.table.list THEN Join(", ", call.table.items) ELSE call.table.s

\* C5: with no optional clause the query is "SELECT <columns> FROM <tables>",
\* each of WHERE, GROUP BY, HAVING, ORDER BY appears exactly when its fragment
\* was supplied, and table "t", columns "*", where_clause "id = 1" give
\* "SELECT * FROM t WHERE id = 1" (both revisions of the builder).
C5_OnlySuppliedClauses ==
    result.state = "ok" =>
        /\ (\A i \in 2..Len(Markers) : ~Supplied[i])
              => result.query = "SELECT " \o ColumnsText \o " FROM " \o TablesText
        /\ \A i \in 3..Len(Markers) : Supplied[i] <=> Find(result.query, Markers[i]) > 0
        /\ (/\ call.table = Str("t") /\ call.column = Str("*") /\ ~Truthy(call.join)
            /\ Fragment("where_clause") = "id = 1"
            /\ \A i \in 4..Len(Markers) : ~Supplied[i])
              => result.query = "SELECT * FROM t WHERE id = 1"

RECURSIVE Offset(_, _)
\* where the i-th element starts in the ", "-joined text, counted from 0
Offset(xs, i) == IF i = 1 THEN 0 ELSE Offset(xs, i - 1) + Len(xs[i - 1]) + 2

\* the text is the elements in their order, with ", " between neighbours
JoinedInOrder(text, xs) ==
    /\ Len(text) = Offset(xs, Len(xs) + 1) - 2
    /\ \A i \in 1..Len(xs) :
          SubSeq(text, Offset(xs, i) + 1, Offset(xs, i) + Len(xs[i])) = xs[i]
    /\ \A i \in 1..(Len(xs) - 1) :
          SubSeq(text, Offset(xs, i) + Len(xs[i]) + 1, Offset(xs, i) + Len(xs[i]) + 2) = ", "

\* a clause's text in the query: a str unchanged, a list joined in order
ClauseTextOk(text, c) == IF c.list THEN JoinedInOrder(text, c.items) ELSE text = c.s

\* the query's text between "SELECT " and " FROM ", and the text of the given
\* length after " FROM "
SelectedText(q) == SubSeq(q, 8, Find(q, " FROM ") - 1)
FromText(q, n) == Take(After(q, " FROM "), n)

\* the length a clause's text must have
ClauseLen(c) == IF c.list THEN Offset(c.items, Len(c.items) + 1) - 2 ELSE Len(c.s)

\* C6: a list or tuple of tables or columns appears joined with ", " in the
\* given order, a single string unchanged, as "SELECT <columns> FROM <tables>".
C6_ListsJoined ==
    BaseOk =>
        /\ Take(result.query, 7) = "SELECT "
        /\ ClauseTextOk(SelectedText(result.query), call.column)
        /\ ClauseTextOk(FromText(result.query, ClauseLen(call.table)), call.table)
        /\ (~Truthy(call.join) /\ \A i \in 3..Len(Markers) : ~Supplied[i])
              => Len(result.query) = 13 + ClauseLen(call.column) + ClauseLen(call.table)
        /\ (call.table = Lst(<<"t1", "t2">>) /\ call.column = Lst(<<"a", "b">>))
              => Take(result.query, 23) = "SELECT a, b FROM t1, t2"

\* tables ["t1","t2"] and columns ["a","b"], nothing else
C6_Witness ==
    /\ BaseOk
    /\ call.table = Lst(<<"t1", "t2">>)
    /\ call.column = Lst(<<"a", "b">>)
    /\ result.query = "SELECT a, b FROM t1, t2"

\* C7: each triple of a list-valued join_clause contributes exactly one JOIN
\* keyword, whether its kind is "left", "LEFT JOIN" or "left join".
C7_OneJoinPerTriple ==
    (BaseOk /\ call.join.list)
        => Count(result.query, "JOIN") = Len(call.join.items)

-----------------------------------------------------------------------------
(* Properties of the write helpers and the executor *)

\* the step is a call of add_records or update_row with dry_run=True that
\* returned, on a connection with nothing pending
DryRunReturned ==
    /\ lastOp'.name \in {"add_records", "update_row"}
    /\ lastOp'.dry_run
    /\ ~lastOp'.raised
    /\ pending = committed

\* C1: a dry run of add_records or update_row leaves the persisted rows as
\* they were, and leaves nothing behind that a later commit would persist.
C1_DryRunNotPersisted ==
    [][DryRunReturned => (committed' = committed /\ pending' = committed)]_vars

\* C9: a call of query_generic or query makes no commit and no rollback and
\* leaves the persisted contents as they were; the persisted contents change
\* only in a step that commits.
C9_ExecutorNeverCommits ==
    [][/\ lastOp'.name \in {"query_generic", "query"}
          => (committed' = committed /\ lastOp'.commits = 0 /\ lastOp'.rollbacks = 0)
       /\ committed' # committed => lastOp'.commits > 0]_vars

\* a write statement executed through query_generic, still uncommitted
C9_Witness ==
    /\ lastOp.name = "query_generic"
    /\ ~lastOp.raised
    /\ pending # committed
    /\ Len(pending.rows) # Len(committed.rows)

-----------------------------------------------------------------------------
(* Properties of the returned records *)

\* the value a dict holds under a key
ValueOf(d, key) == d[CHOOSE i \in 1..Len(d) : d[i][1] = key][2]

\* the query selecting the record's row by its primary key
PkQuery(rec) == "SELECT * FROM t WHERE id = " \o ToStr(ValueOf(rec, "id"))

\* the generator of a primary-key query made right after add_records wrote
\* the record with dry_run=False
RoundTrip == gen.state # "none" /\ gen.after # NoRec /\ gen.sql = PkQuery(gen.after)

\* C8: after create_table and add_records of one record (dry_run=False), the
\* query for the record's primary key has exactly one row, and iterated to
\* its end it yielded exactly one record, whose value under each column of
\* the inserted record is the inserted value.
C8_RoundTrip ==
    RoundTrip =>
        /\ Len(gen.result) = 1
        /\ gen.stops > 0 =>
              /\ Len(gen.yielded) = 1
              /\ \A i \in 1..Len(gen.after) :
                    /\ HasKey(gen.yielded[1], gen.after[i][1])
                    /\ GetItem(gen.yielded[1], gen.after[i][1]) = gen.after[i][2]

\* the round trip made to its end, for a record whose keys are not in the
\* order of the table's columns
C8_Witness ==
    /\ RoundTrip
    /\ gen.stops > 0
    /\ gen.after[1][1] = "v"
    /\ gen.after[1][2] # gen.after[2][2]

\* C10: the generator yields the result's rows as records, one per row in
\* the cursor's order; once it has ended it has yielded every row, yields
\* nothing more however often it is asked again, and the statement was
\* executed once.
C10_SinglePass ==
    gen.state # "none" =>
        /\ Len(gen.yielded) <= Len(gen.result)
        /\ \A i \in 1..Len(gen.yielded) :
              gen.yielded[i] = [cols |-> gen.cols, vals |-> gen.result[i]]
        /\ gen.stops > 0 => Len(gen.yielded) = Len(gen.result)
        /\ gen.stops = 0 => Len(gen.yielded) = gen.idx
        /\ gen.executes = 1

\* a result of two rows iterated to its end, then asked again
C10_Witness ==
    /\ gen.state = "finished"
    /\ gen.stops > 1
    /\ Len(gen.result) > 1
    /\ Len(gen.yielded) = Len(gen.result)

-----------------------------------------------------------------------------
(* Properties of query logging *)

\* C11: a query_generic call with errf given writes the query to errf and
\* prints nothing; with errf None it prints the query exactly when verbose
\* or self.verbose is true; no call writes to both.
C11_ExclusiveLogging ==
    [][lastOp'.name = "query_generic" =>
          /\ logCall'.errf
                => (errf' = Append(errf, logCall'.sql \o "\n") /\ stdout' = stdout)
          /\ (~logCall'.errf /\ (logCall'.verbose \/ logCall'.self_verbose))
                => (stdout' = Append(stdout, logCall'.sql \o "\n") /\ errf' = errf)
          /\ (~logCall'.errf /\ ~logCall'.verbose /\ ~logCall'.self_verbose)
                => (stdout' = stdout /\ errf' = errf)
          /\ ~(stdout' # stdout /\ errf' # errf)]_vars

\* a call with errf given and both verbose flags set: only errf was written
C11_Witness ==
    /\ lastOp.name = "query_generic"
    /\ logCall.errf /\ logCall.verbose /\ logCall.self_verbose
    /\ errf = <<logCall.sql \o "\n">>
    /\ stdout = <<>>

-----------------------------------------------------------------------------
(* Properties of SQLRecord *)

\* the column is present in the looked-up record
Present == \E i \in 1..Len(recCall.rec.cols) : recCall.rec.cols[i] = recCall.name

\* the row's value for the column
RowValue ==
    recCall.rec.vals[CHOOSE i \in 1..Len(recCall.rec.cols) : recCall.rec.cols[i] = recCall.name]

\* C12: record[name] and record.name return the row's value for a present
\* column and raise for an absent one; record.get(name, default) returns the
\* row's value for a present column, default for an absent one, never raises.
C12_LookupByName ==
    /\ recResult.op \in {"getitem", "getattr"} =>
          IF Present THEN ~recResult.raised /\ recResult.value = RowValue
          ELSE recResult.raised
    /\ recResult.op = "get" =>
          /\ ~recResult.raised
          /\ recResult.value = IF Present THEN RowValue ELSE recCall.default_value

-----------------------------------------------------------------------------
(* Properties of the connection of a wrapper object *)

\* a step of a query or write helper, or of the connection's commit/rollback
HelperStep == lastOp' # lastOp \/ gen' # gen \/ committed' # committed

\* C13: when the constructor of SQLiteDB, MySQLDB or PgSQLDB has returned it
\* has opened exactly one driver connection; the connection is open as long as
\* close() was not called and the object was not torn down, every query and
\* write helper leaves it alone, and close() and teardown leave it closed.
C13_OneConnection ==
    /\ [](life.phase \in {"built", "deleted"} /\ life.outcome \in {"ok", "load_raises"}
            => life.connects = 1 /\ life.stored)
    /\ [](life.phase = "built" /\ life.closes = 0 => life.open)
    /\ [](life.closes > 0 => ~life.open)
    /\ [][HelperStep => life' = life]_vars
    /\ [][life.phase = "built" /\ life'.phase = "deleted" => ~life'.open]_vars

C13_Witness ==
    /\ life.phase = "deleted"
    /\ life.connects = 1
    /\ life.closes = 1
    /\ ~life.open
    /\ lastOp.name = "add_records"

\* C14: when load_extension raises in SQLiteDB.connect the construction is
\* not aborted: the object is built, its one connection is open until it is
\* closed, and has_spatialite is False; when nothing raises it is True.
C14_SpatialiteOptional ==
    life.cls = "SQLiteDB" /\ life.outcome \in {"load_raises", "ok"}
        => /\ life.phase \in {"built", "deleted"}
           /\ life.connects = 1
           /\ (life.closes = 0 => life.open)
           /\ life.has_spatialite = (IF life.outcome = "ok" THEN "True" ELSE "False")

C14_Witness ==
    /\ life.cls = "SQLiteDB"
    /\ life.outcome = "load_raises"
    /\ life.phase = "built"
    /\ life.open
    /\ life.has_spatialite = "False"
    /\ lastOp.name = "add_records"

-----------------------------------------------------------------------------
(* Properties of failing statements *)

DriverErrors == {"OperationalError", "IntegrityError", "ProgrammingError"}

\* C15: an exception the driver raises while query_generic or a write helper
\* executes a statement reaches the caller as the driver raised it: the call
\* raises the same exception, makes no commit and no rollback after it, leaves
\* the durable contents alone and executes nothing again (one statement, or
\* for add_records the inserts up to the failing one).
C15_DriverErrorsPropagate ==
    [][/\ lastOp'.raised <=> lastOp'.driver_error # ""
       /\ lastOp'.error = lastOp'.driver_error
       /\ lastOp'.raised
            => /\ lastOp'.error \in DriverErrors
               /\ lastOp'.commits = 0
               /\ lastOp'.rollbacks = 0
               /\ committed' = committed
               /\ lastOp'.executes <= (IF lastOp'.name = "add_records" THEN MaxRecs ELSE 1)]_vars

C15_Witness ==
    /\ lastOp.name = "add_records"
    /\ lastOp.raised
    /\ lastOp.error = "IntegrityError"
    /\ lastOp.executes = 2
    /\ pending # committed

-----------------------------------------------------------------------------
(* Properties of the schema and row helpers *)

\* the name create_index is to give the index
NameAsked == IF lastCall.idx_name = "" THEN lastCall.col_name \o "_IDX" ELSE lastCall.idx_name

\* C16: create_index(table, col, idx_name) executes a CREATE INDEX statement
\* for the table and column and commits it, on every adapter; without
\* idx_name the index is named "<col>_IDX".
C16_CreateIndexExecutes ==
    lastOp.name = "create_index"
        => /\ lastOp.executes = 1
           /\ lastCall.sql = "CREATE INDEX " \o NameAsked \o " ON t(" \o lastCall.col_name \o ")"
           /\ ~lastOp.raised
                => /\ lastOp.commits = 1
                   /\ <<NameAsked, lastCall.col_name>> \in committed.indexes

\* C17: SQLiteDB.delete_column executes nothing, neither commits nor rolls
\* back and leaves the durable contents and the pending transaction as they
\* were; on the other adapters delete_column executes ALTER TABLE ... DROP
\* COLUMN and commits it.
C17_DeleteColumn ==
    [][lastOp'.name = "delete_column"
        => IF adapter = "SQLiteDB"
           THEN /\ lastOp'.executes = 0
                /\ lastOp'.commits = 0
                /\ lastOp'.rollbacks = 0
                /\ lastCall'.sql = ""
                /\ committed' = committed
                /\ pending' = pending
           ELSE /\ lastOp'.executes = 1
                /\ lastOp'.rollbacks = 0
                /\ lastCall'.sql = "ALTER TABLE t DROP COLUMN " \o lastCall'.col_name
                /\ ~lastOp'.raised
                     => /\ lastOp'.commits = 1
                        /\ committed' = pending'
                        /\ \A i \in 1..Len(committed'.cols) :
                               committed'.cols[i] # lastCall'.col_name]_vars

\* SQLiteDB.delete_column called within a pending transaction
C17_Witness ==
    /\ adapter = "SQLiteDB"
    /\ lastOp.name = "delete_column"
    /\ pending # committed
    /\ Len(pending.rows) > 0

\* the where_clause without its leading keyword
Predicate(w) == IF Upper(Take(LStrip(w), 5)) = "WHERE" THEN Drop(LStrip(w), 5) ELSE w

\* the rows of the table the predicate does not select
Unselected(db, w) ==
    SelectRows(db.rows, {j \in 1..Len(db.rows) : ~Matches(db.cols, w, db.rows[j])})

C18_AllDeleted ==
    /\ lastOp.name = "delete_records"
    /\ lastCall.where_clause = ""
    /\ ~lastOp.raised
    /\ ~lastOp.dry_run
    /\ lastOp.commits = 1

-----------------------------------------------------------------------------
(* Properties of the query entry points *)

\* C19: the statement a query entry point executes is build_sql_query applied
\* to the clauses the entry point was given, each under its own name; a
\* group_clause that is not empty gives GROUP BY in the executed statement.
C19_ClausesReachBuilder ==
    result.state = "executed"
        => /\ result.query =
                IF result.impl = "simpledb.SQLDB.query"
                THEN simpledb_build_sql_query(call.table, call.column,
                         Fragment("where_clause"), Fragment("having_clause"),
                         Fragment("order_clause"), Fragment("group_clause"))
                ELSE build_sql_query(call.table, call.column, call.join,
                         Fragment("where_clause"), Fragment("having_clause"),
                         Fragment("order_clause"), Fragment("group_clause"))
           /\ Fragment("group_clause") # "" => Find(result.query, " GROUP BY ") > 0

-----------------------------------------------------------------------------
(* Properties of the records of PgSQLDB *)

\* C20: a query on a PgSQLDB yields one SQLRecord per row of the result, with
\* psycopg2 as with pg8000: the generator that has ended has yielded the rows
\* of the result, in their order, under the cursor's column names.
C20_OneRecordPerRow ==
    life.cls = "PgSQLDB" /\ gen.state = "finished"
        => /\ Len(gen.yielded) = Len(gen.result)
           /\ \A i \in 1..Len(gen.result) :
                  i <= Len(gen.yielded) /\ gen.yielded[i] = SQLRecord(gen.cols, gen.result[i])

-----------------------------------------------------------------------------
\* create_table on column specifications
NextCreate ==
    \/ CreateTableFrom
    \/ DropTable
    \/ AddRecords

SpecCreate == InitBase /\ [][NextCreate]_vars

\* Statements run by query_generic, in the helpers and by the caller, who
\* may keep the generator without iterating it
NextExec ==
    \/ CreateTable
    \/ DropTable
    \/ RenameTable
    \/ AddColumn
    \/ DeleteColumn
    \/ DeleteRecords
    \/ QueryGenericKept
    \/ NextRecord

SpecExec == InitBase /\ [][NextExec]_vars

\* Two queries whose generators the caller holds and iterates in any order
NextTwo ==
    \/ QueryKept
    \/ SecondQuery
    \/ NextRecord
    \/ NextRecordSecond

\* the databases the wrapper is opened on: the table t as create_table made
\* it, holding what one add_records call committed
StoredTables ==
    {SQLDB_add_records("SQLDB", create_table("SQLDB", NoTable, NoTable, "t", info).committed,
                       create_table("SQLDB", NoTable, NoTable, "t", info).committed, "t", recs,
                       FALSE).committed : info \in ColumnInfoLists, recs \in RecLists}

\* One wrapper object over a database that holds the table
InitTwo ==
    /\ adapter \in Adapters
    /\ life = Built(adapter)
    /\ committed \in StoredTables
    /\ pending = committed
    /\ gen = NoGen
    /\ gen2 = NoGen
    /\ lastOp = NoOp
    /\ call = NoCall
    /\ result = NoResult
    /\ stdout = <<>>
    /\ errf = <<>>
    /\ logCall = NoLogCall
    /\ recCall = NoLookup
    /\ recResult = NoLookupResult
    /\ lastCall = NoDdlCall

SpecTwo == InitTwo /\ [][NextTwo]_vars

(* Properties of the transaction calls of SQLDB's write helpers *)

DryRunHelpers == {"add_records", "delete_records", "update_row"}

CommitHelpers ==
    {"create_table", "drop_table", "rename_table", "add_column", "delete_column",
     "create_index"}

\* C21: a write helper of SQLDB that returns has made one transaction call on
\* the connection: add_records, delete_records and update_row a rollback when
\* dry_run is true and a commit otherwise; create_table, drop_table,
\* rename_table, add_column, delete_column and create_index a commit, after
\* the one statement they execute.
C21_OneTransactionCall ==
    adapter = "SQLDB" /\ ~lastOp.raised
        => /\ lastOp.name \in DryRunHelpers
                => /\ lastOp.commits + lastOp.rollbacks = 1
                   /\ lastOp.rollbacks = (IF lastOp.dry_run THEN 1 ELSE 0)
           /\ lastOp.name \in CommitHelpers
                => /\ lastOp.commits = 1
                   /\ lastOp.rollbacks = 0
                   /\ lastOp.executes = 1

\* a dry run of delete_records on a table with rows returned
C21_Witness ==
    /\ adapter = "SQLDB"
    /\ lastOp.name = "delete_records"
    /\ lastOp.dry_run
    /\ ~lastOp.raised
    /\ lastOp.rollbacks = 1
    /\ Len(pending.rows) > 0

-----------------------------------------------------------------------------
(* Properties of update_rows *)

\* C22: update_rows called with dry_run=True persists none of its updates:
\* no commit is made during the call and the durable contents are those from
\* before the call.
C22_DryRunUpdatesNothing ==
    [][lastOp'.name = "update_rows" /\ lastOp'.dry_run
        => lastOp'.commits = 0 /\ committed' = committed]_vars

\* the records a col_dict_list describes, as a list of dicts
Records(col_dict_list) ==
    IF col_dict_list.shape = "list" THEN col_dict_list.items
    ELSE [i \in 1..Len(col_dict_list.lists[1]) |->
            [k \in 1..Len(col_dict_list.keys) |->
                <<col_dict_list.keys[k], col_dict_list.lists[k][i]>>]]

\* the value of column v in the record
NewValue(rec) == rec[CHOOSE k \in 1..Len(rec) : rec[k][1] = "v"][2]

\* the id of the record
RowId(rec) == rec[CHOOSE k \in 1..Len(rec) : rec[k][1] = "id"][2]

\* C23: for a list of dicts as for a dict of lists, update_rows issues one
\* update per record, with the where clause "id = <id of the record>" and
\* setting the other column to the record's value: unless the driver raises
\* the call raises nothing and has issued these updates, in the records' order.
C23_BothShapes ==
    lastOp.name = "update_rows" /\ lastOp.driver_error = ""
        => /\ ~lastOp.raised
           /\ Len(lastCall.updates) = Len(Records(lastCall.arg))
           /\ \A i \in 1..Len(Records(lastCall.arg)) :
                  /\ i <= Len(lastCall.updates)
                  /\ lastCall.updates[i][1] =
                        "UPDATE t SET v = " \o DriverPlaceholder(adapter) \o " WHERE id = "
                            \o ToStr(RowId(Records(lastCall.arg)[i]))
                  /\ lastCall.updates[i][2] = <<NewValue(Records(lastCall.arg)[i])>>

(* Properties of SQLiteDB.update_column *)

\* the rows of db the clause selects, as indexes
Selected(db, where_clause) == Hits(db, ParseCond(where_clause))

\* the place of row j among the rows the clause selects: in the order of the
\* order clause (rowid) or, without one, in the order the table holds them
PlaceOf(db, where_clause, order_clause, j) == IF order_clause = "" THEN Cardinality({k \in Selected(db, where_clause) : k <= j}) ELSE Cardinality({k \in Selected(db, where_clause) : db.rows[k].vals[IndexOf(db.cols, db.pk)] <= db.rows[j].vals[IndexOf(db.cols, db.pk)]})

\* db with col_values[i] written to the i-th selected row's column v
ColumnWritten(db, where_clause, order_clause, col_values) == [db EXCEPT !.rows = [j \in 1..Len(db.rows) |-> IF j \in Selected(db, where_clause) THEN UpdatedRow(db.cols, <<"v">>, <<col_values[PlaceOf(db, where_clause, order_clause, j)]>>, db.rows[j]) ELSE db.rows[j]]]

\* C24: update_column on an existing table writes col_values[i] to the i-th
\* row the where clause selects, in the order of the order clause, and to no
\* other row; when the number of selected rows differs from len(col_values)
\* it raises and leaves the table as it was
C24_UpdateColumnWrites == [][(lastCall'.name = "update_column" /\ pending.name = "t") => IF Cardinality(Selected(pending, lastCall'.where_clause)) # Len(lastCall'.col_values) THEN lastOp'.raised /\ pending' = pending /\ committed' = committed ELSE ~lastOp'.raised /\ pending' = ColumnWritten(pending, lastCall'.where_clause, lastCall'.order_clause, lastCall'.col_values)]_vars

(* Properties of SQLDB.create_table *)

\* the column definition a specification stands for: name and type, the
\* default when one is given, NOT NULL, PRIMARY KEY
ColumnText(info) == info.col_name \o " " \o info.col_type \o (IF info.size = 5 /\ info.has_default THEN " default " \o ToStr(info.default_value) ELSE "") \o (IF info.size = 5 /\ info.notnull THEN " NOT NULL" ELSE "") \o (IF info.size = 5 /\ info.primary_key THEN " PRIMARY KEY" ELSE "")

\* C25: create_table accepts column specifications of either form, short or
\* in full, and the statement it hands to the driver holds, for each column,
\* its name and type, " default <value>" when a default is given (0 as well),
\* " NOT NULL" and " PRIMARY KEY", the columns separated by ", "
C25_CreateTableSql == (lastCall.name = "create_table" /\ lastCall.columns # <<>>) => lastCall.sql = "CREATE TABLE t(" \o Join(", ", [i \in 1..Len(lastCall.columns) |-> ColumnText(lastCall.columns[i])]) \o ")"

(* Properties of a failed add_records *)

\* the rows the last call inserted before the record it raised on: the
\* driver appends a row per INSERT, and the call made lastOp.executes of them,
\* the last one raising
InsertedBeforeRaise == {pending.rows[j] : j \in {i \in 1..Len(pending.rows) : i > Len(pending.rows) + 1 - lastOp.executes}}

Durable(db) == {db.rows[k] : k \in 1..Len(db.rows)}

\* C26: after add_records raised on a record that was not its first, the
\* rows it inserted before, which are not durable at that point, are not made
\* durable by the next operation on the connection
C26_FailedInsertsNotPersisted == [][(lastOp.name = "add_records" /\ lastOp.raised /\ lastOp.executes > 1 /\ InsertedBeforeRaise \cap Durable(committed) = {}) => InsertedBeforeRaise \cap Durable(committed') = {}]_vars

(* Properties of the time query_generic executes its statement *)

\* the helpers that call query_generic and drop what it returns
ExecHelpers == {"create_table", "drop_table", "rename_table", "add_column", "delete_records"}

\* a call of query_generic by the caller returned: the generator it holds is
\* new, or the call raised
QueryGenericReturns == lastOp'.name = "query_generic" /\ gen'.state \in {"created", "none"}

\* the statement s was executed in this step and its rows wait in the cursor
ExecutedNow(s) == pending' = Execute(pending, s[1], s[2], DriverPlaceholder(adapter)).db /\ lastOp'.raised = Execute(pending, s[1], s[2], DriverPlaceholder(adapter)).raised /\ (~lastOp'.raised => (gen'.sql = s[1] /\ gen'.cursor = Execute(pending, s[1], s[2], DriverPlaceholder(adapter)).rows /\ gen'.yielded = <<>>))

\* the helper's transaction call came after its statement: a commit makes
\* the statement's effect durable, a rollback undoes it
TransactionAfterStatement == lastOp'.executes = 1 /\ ~Execute(pending, lastCall'.sql, <<>>, DriverPlaceholder(adapter)).raised /\ (IF lastOp'.rollbacks = 1 THEN lastOp'.commits = 0 /\ committed' = committed /\ pending' = committed ELSE lastOp'.commits = 1 /\ committed' = Execute(pending, lastCall'.sql, <<>>, DriverPlaceholder(adapter)).db /\ pending' = committed')

\* C27: query_generic executes its statement once, when it is called, on a
\* cursor of its own whose rows no next() has fetched yet; a helper that drops
\* the generator has executed its statement before it commits or rolls back
C27_ExecutedAtCallTime == [][(QueryGenericReturns => (lastOp'.executes = 1 /\ committed' = committed /\ \E s \in Statements(adapter) : ExecutedNow(s))) /\ ((lastOp'.name \in ExecHelpers /\ ~lastOp'.raised /\ gen' = gen) => TransactionAfterStatement)]_vars

\* an INSERT handed to query_generic is pending although the generator was
\* never iterated
C27_Witness == lastOp.name = "query_generic" /\ gen.state = "created" /\ Len(pending.rows) > Len(committed.rows)

(* Properties of two queries on one wrapper *)

\* the records of the first n rows of the generator's own query
OwnRecords(g, n) == [i \in 1..n |-> SQLRecord(g.cols, g.result[i])]

\* what the generator yielded so far are the first rows of its own query, and
\* all of them once it has ended
YieldsOwnRows(g) == Len(g.yielded) <= Len(g.result) /\ g.yielded = OwnRecords(g, Len(g.yielded)) /\ (g.state = "finished" => Len(g.yielded) = Len(g.result))

\* C28: when a second query is issued while the generator of a first one is
\* held, each generator yields the rows of its own query, however the two
\* are iterated
C28_QueriesDoNotInterfere == (gen.state # "none" /\ gen2.state # "none") => (YieldsOwnRows(gen) /\ YieldsOwnRows(gen2))

\* both generators ended after the second query was issued before the first
\* yielded anything, and the two queries differ in their rows
C28_Witness == gen.state = "finished" /\ gen2.state = "finished" /\ Len(gen.result) = 2 /\ Len(gen2.result) = 1 /\ Len(gen.yielded) = 2 /\ Len(gen2.yielded) = 1

(* Properties of closing twice *)

\* the object is torn down in this step
TornDown == life.phase \in {"built", "failed"} /\ life'.phase = "deleted"

\* C29: teardown calls close() whatever happened before: on an object that
\* holds a connection the driver's close() is called once more, also after
\* an explicit close(); on an object whose connect() raised before a
\* connection was stored close() is called on nothing and raises
C29_NoOnceOnlyGuard == [][TornDown => IF life.stored THEN life'.closes = life.closes + 1 /\ ~life'.teardown_raised ELSE life'.closes = life.closes /\ life'.teardown_raised]_vars

\* an object closed by the caller and then torn down: two calls of the
\* driver's close()
C29_Witness == life.phase = "deleted" /\ life.stored /\ life.closes = 2

(* Properties of the keyword a fragment begins with *)

\* the fragment begins with the keyword as a word of its own: the keyword is
\* all of it or a blank follows
KeywordAlone(text, k) == Begins(text, k) /\ Take(Drop(LStrip(text), k[3]), 1) \in {"", " "}

\* C30: a fragment that does not begin with the keyword as a word of its own,
\* also one whose first word begins with the keyword's letters, follows the
\* keyword the builder introduced as the caller wrote it
C30_OnlyWholeKeywordStripped == BaseOk => \A k \in Keyworded : (Fragment(k[1]) # "" /\ ~KeywordAlone(Fragment(k[1]), k)) => Find(result.query, " " \o k[2] \o " " \o Fragment(k[1])) > 0

=========================================================================
